---------------------------- MODULE Spec2Model ----------------------------
(***************************************************************************)
(* Model of the legal-database retrieval engine (src/mcp_server.py,        *)
(* src/vector_db.py): the in-memory vector index and its lazy load, the    *)
(* background preload with its readiness event, the per-request vector     *)
(* worker with its gate and join timeouts, clear_caches, the connection    *)
(* pool and the retrieval paths of search_laws.                            *)
(***************************************************************************)
EXTENDS Integers, Sequences, FiniteSets, TLC

(***************************************************************************)
(* Bounds of the model.                                                    *)
(***************************************************************************)
\* number of articles external ingestion may add to article_embeddings
MaxArticles == 1
\* seconds of waiting that one Tick of a blocked request stands for
TickStep == 5
\* number of concurrent get_connection scopes
NumScopes == 3
\* largest pool_size a ConnectionPool is constructed with
MaxPoolSize == 2
\* number of laws in the store
NumLaws == 2
\* largest length(la.content) of a row of the index
MaxLength == 300
\* largest number of lines of a text given to split_law
MaxLines == 5
\* largest number whose numerals are converted
MaxN == 9999
\* longest result list of a path given to the RRF merge
MaxList == 2
\* largest limit search_article_content is called with
MaxOut == 3
\* largest number of tokens of a query given to resolve_concept_cached
MaxTokens == 2
\* largest number of canonical terms of a candidate
MaxSynonyms == 2
\* largest number of rows one topic lookup returns
MaxRows == 1
\* largest article_number_int of the law given to _get_sibling_articles
MaxArticleNo == 12
\* number of versions of the row a cached function reads
MaxVersion == 2
\* largest limit search_laws is called with
MaxLimit == 2
\* number of distinct publish dates of laws
MaxDate == 2

(***************************************************************************)
(* Program constants.                                                      *)
(***************************************************************************)
\* _vector_ready.wait(timeout=15.0)
GateTimeout == 15
\* t.join(timeout=10.0)
JoinTimeout == 10

(***************************************************************************)
(* Threads.  The preload thread, the thread that runs clear_caches, and    *)
(* one vector worker per request.  Requests share nothing but the index,   *)
(* the caches and the store; one request and its worker run beside the     *)
(* preload thread and clear_caches.                                        *)
(***************************************************************************)
Requests == {1}
PreloadT == <<"preload", 0>>
ClearT == <<"clear_caches", 0>>
WorkerT(r) == <<"worker", r>>
Workers == {WorkerT(r) : r \in Requests}
Threads == {PreloadT, ClearT} \cup Workers
NoThread == <<"none", 0>>

\* the with-blocks that use get_connection, and the ids of laws
Scopes == 1..NumScopes
Laws == 1..NumLaws

\* an attribute that is None, and one that holds an array with the given rows
NoneArr == [set |-> FALSE, rows |-> <<>>]
Arr(s) == [set |-> TRUE, rows |-> s]

Min(a, b) == IF a <= b THEN a ELSE b

VARIABLES
    \* the store (article_embeddings joined with law_articles and laws)
    store_rows,
    \* VectorIndex fields
    loaded, article_ids, matrix, boost_factors, lock,
    \* number of times the load body has been entered, and has raised
    load_count, load_raised,
    \* module state of mcp_server: vdb marker and the readiness event
    vdb, vector_ready,
    \* per thread: position, rows fetched by its _load, arrays its search read
    pc, rows, seen,
    \* outcome of the preload's idx._load(): "pending", "ok" or "failed"
    preload_outcome,
    \* per request; after_failed: the request was issued after the preload
    \* had failed
    rpc, kind, nonvec, after_failed, waited, join_expired,
    holder, vec_hits, response,
    \* the three lru caches (sets of cached keys)
    alias_cache, law_cache, concept_cache,
    \* contents of the store when clear_caches was called
    cc_store,
    \* ConnectionPool: pool_size, the free list, the next connection to be
    \* opened and the connections closed; per scope its position and the
    \* connection it obtained
    pool_size, connections, next_conn, closed, spc, sconn,
    \* search_laws: position, the paths that hit a store error, whether the
    \* query has more than one token and more than four characters, the
    \* category, status and limit parameters, the result of each path,
    \* whether the vector stage ran, and the payload returned
    lpc, lfail, lmulti, llong, lcategory, lstatus, llimit, lalias, lshown,
    lconcept, lconceptshown, lresults, lfallback, lvecrun, lvector, lpayload,
    \* resolve_law_alias_cached: the rows of law_aliases joined with laws,
    \* the position of the call and its result
    alias_rows, apc, alias_result,
    \* cn2an_convert: which definition the import selected, the number
    \* whose numeral is converted, the form of the numeral, the position of
    \* the call and the value returned
    cn_build, cn_n, cn_form, cpc, cn_value,
    \* split_law: the lines of the text (the kind of each line), the number
    \* of the line the loop is at, the locals of split_law, and whether it
    \* has returned
    lines, line_no, current_bian, current_fenbian, current_zhang, current_jie,
    current_chapter_path, current_lines, collecting, articles, split_returned,
    \* current_num_int and current_num_str of split_law, and the opener lines
    \* whose numeral could not be parsed
    current_num_int, current_num_str, unparsed,
    \* the boost factor of one row in VectorIndex._load: whether the title
    \* contains a core-law name, length(la.content), the position, and the
    \* factor in thousandths
    title_core, length, bpc, factor,
    \* the RRF merge of search_article_content: the keys of the rows of the
    \* three paths, limit, the position, the scores dict, its keys in
    \* insertion order, and the keys of final_rows
    concept_results, fts_results, vec_results, merge_limit, mpc, scores,
    score_keys, final_keys,
    \* the article FTS ladder of search_article_content: whether the
    \* expanded query differs and holds " OR ", whether there are several
    \* tokens, whether a token has two characters or more, the position,
    \* fts_results, and the queries run so far with the rows each returned
    \* and whether it raised
    expanded_or, several_tokens, long_token, kpc, ladder_results, ran,
    \* resolve_concept_cached: the number of tokens of the query, the number
    \* of the candidate in turn, the position, the number of rows in results,
    \* the synonyms still to be looked up and the rows they gave so far, the
    \* lookups done (candidate, kind, rows obtained, whether it raised) and
    \* the number of rows returned (NotReturned before the return)
    num_tokens, cand_no, qpc, results_len, syn_left, syn_rows, lookups,
    concept_return,
    \* _get_sibling_articles: the chapter_path of every article of the law
    \* (by article_number_int), the article asked for, the position and the
    \* article numbers listed
    path_of, target_int, gpc, sibling_list,
    \* one key of one lru_cache-decorated function beside clear_caches: the
    \* function, the version of the key's row in the store, whether the
    \* store answers, the cache entry, the calls of the two callers, the
    \* position of clear_caches, and the store version at the start of the
    \* running and of the last returned clear_caches
    cache_fn, kv_version, kv_ok, lru, calls, clr_pc, clr_seen, clear_floor

storeVars == <<store_rows>>
indexVars == <<loaded, article_ids, matrix, boost_factors, lock, load_count,
              load_raised>>
threadVars == <<pc, rows, seen>>
readyVars == <<vdb, vector_ready, preload_outcome>>
reqVars == <<rpc, kind, nonvec, after_failed, waited, join_expired,
             holder, vec_hits, response>>
cacheVars == <<alias_cache, law_cache, concept_cache, cc_store>>
poolVars == <<pool_size, connections, next_conn, closed, spc, sconn>>
lawsVars == <<lpc, lfail, lmulti, llong, lcategory, lstatus, llimit, lalias,
             lshown, lconcept, lconceptshown, lresults, lfallback, lvecrun,
             lvector, lpayload>>
aliasVars == <<alias_rows, apc, alias_result>>
numeralVars == <<cn_build, cn_n, cn_form, cpc, cn_value>>
hierarchyVars == <<current_bian, current_fenbian, current_zhang, current_jie>>
collectVars == <<current_chapter_path, current_lines, collecting, articles>>
numberVars == <<current_num_int, current_num_str, unparsed>>
splitVars == <<lines, line_no, hierarchyVars, collectVars, split_returned,
               numberVars>>
boostVars == <<title_core, length, bpc, factor>>
mergeVars == <<concept_results, fts_results, vec_results, merge_limit, mpc,
               scores, score_keys, final_keys>>
ladderVars == <<expanded_or, several_tokens, long_token, kpc, ladder_results,
                ran>>
conceptVars == <<num_tokens, cand_no, qpc, results_len, syn_left, syn_rows,
                 lookups, concept_return>>
siblingVars == <<path_of, target_int, gpc, sibling_list>>
lruVars == <<cache_fn, kv_version, kv_ok, lru, calls, clr_pc, clr_seen,
            clear_floor>>
\* the variables of the functions that are modelled on their own
utilVars == <<aliasVars, numeralVars, splitVars, boostVars, mergeVars,
              ladderVars, conceptVars, siblingVars, lruVars>>
\* the variables of the server, the pool and search_laws
serverVars == <<storeVars, indexVars, threadVars, readyVars, reqVars,
                cacheVars, poolVars, lawsVars>>
vars == <<storeVars, indexVars, threadVars, readyVars, reqVars, cacheVars,
          poolVars, lawsVars, utilVars>>
otherThanAlias == <<serverVars, numeralVars, splitVars, boostVars, mergeVars,
                    ladderVars, conceptVars, siblingVars, lruVars>>
otherThanNumeral == <<serverVars, aliasVars, splitVars, boostVars, mergeVars,
                      ladderVars, conceptVars, siblingVars, lruVars>>
otherThanSplit == <<serverVars, aliasVars, numeralVars, boostVars, mergeVars,
                    ladderVars, conceptVars, siblingVars, lruVars>>
otherThanBoost == <<serverVars, aliasVars, numeralVars, splitVars, mergeVars,
                    ladderVars, conceptVars, siblingVars, lruVars>>
otherThanMerge == <<serverVars, aliasVars, numeralVars, splitVars, boostVars,
                    ladderVars, conceptVars, siblingVars, lruVars>>
otherThanLadder == <<serverVars, aliasVars, numeralVars, splitVars, boostVars,
                     mergeVars, conceptVars, siblingVars, lruVars>>
otherThanConcept == <<serverVars, aliasVars, numeralVars, splitVars,
                      boostVars, mergeVars, ladderVars, siblingVars, lruVars>>
otherThanSibling == <<serverVars, aliasVars, numeralVars, splitVars,
                      boostVars, mergeVars, ladderVars, conceptVars, lruVars>>
otherThanLru == <<serverVars, aliasVars, numeralVars, splitVars, boostVars,
                  mergeVars, ladderVars, conceptVars, siblingVars>>

(***************************************************************************)
(* The store.  Ingestion is external; it appends articles with embeddings. *)
(***************************************************************************)
Ingest ==
    /\ Len(store_rows) < MaxArticles
    /\ store_rows' = Append(store_rows, Len(store_rows) + 1)
    /\ UNCHANGED <<indexVars, threadVars, readyVars, reqVars, cacheVars,
                   poolVars, lawsVars, utilVars>>

(***************************************************************************)
(* VectorIndex._load, one action per shared-memory step.                   *)
(***************************************************************************)
\* where a thread continues when its _load() returns
AfterLoad(t) ==
    IF t = PreloadT THEN "preload_ok"
    ELSE IF t = ClearT THEN "cc_return"
    ELSE "search_len"

\* where a thread continues when its _load() raises
AfterLoadRaise(t) ==
    IF t = PreloadT THEN "preload_except"
    ELSE IF t = ClearT THEN "cc_return"
    ELSE "w_except"

\* if self._loaded: return
LoadCheck(t) ==
    /\ pc[t] = "load_check"
    /\ pc' = [pc EXCEPT ![t] = IF loaded THEN AfterLoad(t) ELSE "load_lock"]
    /\ UNCHANGED <<rows, seen, storeVars, indexVars, readyVars, reqVars,
                   cacheVars, poolVars, lawsVars, utilVars>>

\* with self._lock: (acquire)
LoadLock(t) ==
    /\ pc[t] = "load_lock"
    /\ lock = NoThread
    /\ lock' = t
    /\ pc' = [pc EXCEPT ![t] = "load_locked"]
    /\ UNCHANGED <<rows, seen, storeVars, loaded, article_ids, matrix,
                   boost_factors, load_count, load_raised, readyVars, reqVars,
                   cacheVars, poolVars, lawsVars, utilVars>>

\* inside the lock: if self._loaded: return; otherwise the with block ends
\* after the logging call (line 113), before sqlite3.connect: the lock is
\* released on both paths
LoadLocked(t) ==
    /\ pc[t] = "load_locked"
    /\ lock = t
    /\ lock' = NoThread
    /\ pc' = [pc EXCEPT ![t] = IF loaded THEN AfterLoad(t) ELSE "load_query"]
    /\ UNCHANGED <<rows, seen, storeVars, loaded, article_ids, matrix,
                   boost_factors, load_count, load_raised, readyVars, reqVars,
                   cacheVars, poolVars, lawsVars, utilVars>>

\* conn = sqlite3.connect; cursor.execute(SELECT ...); rows = cursor.fetchall()
LoadQuery(t) ==
    /\ pc[t] = "load_query"
    /\ load_count' = load_count + 1
    /\ load_raised' = load_raised
    /\ rows' = [rows EXCEPT ![t] = store_rows]
    /\ pc' = [pc EXCEPT ![t] = "load_ids"]
    /\ UNCHANGED <<seen, storeVars, loaded, article_ids, matrix,
                   boost_factors, lock, readyVars, reqVars, cacheVars,
                   poolVars, lawsVars, utilVars>>

\* the connect or the query raises (store error); finally: conn.close()
LoadQueryFail(t) ==
    /\ pc[t] = "load_query"
    /\ load_count' = load_count + 1
    /\ load_raised' = load_raised + 1
    /\ pc' = [pc EXCEPT ![t] = AfterLoadRaise(t)]
    /\ UNCHANGED <<rows, seen, storeVars, loaded, article_ids, matrix,
                   boost_factors, lock, readyVars, reqVars, cacheVars,
                   poolVars, lawsVars, utilVars>>

\* self._article_ids = np.array(ids)
LoadIds(t) ==
    /\ pc[t] = "load_ids"
    /\ article_ids' = Arr(rows[t])
    /\ pc' = [pc EXCEPT ![t] = "load_matrix"]
    /\ UNCHANGED <<rows, seen, storeVars, loaded, matrix, boost_factors, lock,
                   load_count, load_raised, readyVars, reqVars, cacheVars,
                   poolVars, lawsVars, utilVars>>

\* self._matrix = np.vstack(vecs)
LoadMatrix(t) ==
    /\ pc[t] = "load_matrix"
    /\ matrix' = Arr(rows[t])
    /\ pc' = [pc EXCEPT ![t] = "load_boost"]
    /\ UNCHANGED <<rows, seen, storeVars, loaded, article_ids, boost_factors,
                   lock, load_count, load_raised, readyVars, reqVars,
                   cacheVars, poolVars, lawsVars, utilVars>>

\* self._boost_factors = np.array(boosts)
LoadBoost(t) ==
    /\ pc[t] = "load_boost"
    /\ boost_factors' = Arr(rows[t])
    /\ pc' = [pc EXCEPT ![t] = "load_flag"]
    /\ UNCHANGED <<rows, seen, storeVars, loaded, article_ids, matrix, lock,
                   load_count, load_raised, readyVars, reqVars, cacheVars,
                   poolVars, lawsVars, utilVars>>

\* self._loaded = True; return
LoadFlag(t) ==
    /\ pc[t] = "load_flag"
    /\ loaded' = TRUE
    /\ pc' = [pc EXCEPT ![t] = AfterLoad(t)]
    /\ UNCHANGED <<rows, seen, storeVars, article_ids, matrix, boost_factors,
                   lock, load_count, load_raised, readyVars, reqVars,
                   cacheVars, poolVars, lawsVars, utilVars>>

Load(t) ==
    \/ LoadCheck(t)
    \/ LoadLock(t)
    \/ LoadLocked(t)
    \/ LoadQuery(t)
    \/ LoadQueryFail(t)
    \/ LoadIds(t)
    \/ LoadMatrix(t)
    \/ LoadBoost(t)
    \/ LoadFlag(t)

(***************************************************************************)
(* _preload_vector_index: the daemon thread started at import when vdb.    *)
(***************************************************************************)
\* idx = get_vector_index(...); idx._load()
PreloadStart ==
    /\ pc[PreloadT] = "preload_start"
    /\ pc' = [pc EXCEPT ![PreloadT] = "load_check"]
    /\ UNCHANGED <<rows, seen, storeVars, indexVars, readyVars, reqVars,
                   cacheVars, poolVars, lawsVars, utilVars>>

\* try body completed: logger.info(...); finally: _vector_ready.set()
PreloadOk ==
    /\ pc[PreloadT] = "preload_ok"
    /\ pc' = [pc EXCEPT ![PreloadT] = "preload_done"]
    /\ preload_outcome' = "ok"
    /\ vector_ready' = TRUE
    /\ UNCHANGED <<rows, seen, vdb, storeVars, indexVars, reqVars, cacheVars,
                   poolVars, lawsVars, utilVars>>

\* the event is set at the end of the try body only, not in a finally
PreloadExcept_NoSet ==
    /\ pc[PreloadT] = "preload_except"
    /\ pc' = [pc EXCEPT ![PreloadT] = "preload_done"]
    /\ preload_outcome' = "failed"
    /\ UNCHANGED <<rows, seen, vdb, vector_ready, storeVars, indexVars,
                   reqVars, cacheVars, poolVars, lawsVars, utilVars>>

\* except Exception: logger.warning(...); finally: _vector_ready.set()
PreloadExcept ==
    /\ pc[PreloadT] = "preload_except"
    /\ pc' = [pc EXCEPT ![PreloadT] = "preload_done"]
    /\ preload_outcome' = "failed"
    /\ vector_ready' = TRUE
    /\ UNCHANGED <<rows, seen, vdb, storeVars, indexVars, reqVars, cacheVars,
                   poolVars, lawsVars, utilVars>>

Preload ==
    \/ PreloadStart
    \/ PreloadOk
    \/ PreloadExcept
    \/ Load(PreloadT)

(***************************************************************************)
(* VectorIndex.search, run by the vector worker of a request               *)
(* (_run_vector_search / _run_article_vec_search).                         *)
(***************************************************************************)
ReqOf(w) == w[2]

\* if len(self._article_ids) == 0: return []
SearchLen(w) ==
    /\ pc[w] = "search_len"
    /\ seen' = [seen EXCEPT ![w].ids = article_ids]
    /\ pc' = [pc EXCEPT ![w] =
                IF ~article_ids.set THEN "w_except"
                ELSE IF Len(article_ids.rows) = 0 THEN "w_write"
                ELSE "search_encode"]
    /\ UNCHANGED <<rows, storeVars, indexVars, readyVars, reqVars, cacheVars,
                   poolVars, lawsVars, utilVars>>

\* query_vec = encode_text(query_text) returns
SearchEncode(w) ==
    /\ pc[w] = "search_encode"
    /\ pc' = [pc EXCEPT ![w] = "search_matrix"]
    /\ UNCHANGED <<rows, seen, storeVars, indexVars, readyVars, reqVars,
                   cacheVars, poolVars, lawsVars, utilVars>>

\* encode_text raises (embedder unavailable)
SearchEncodeFail(w) ==
    /\ pc[w] = "search_encode"
    /\ pc' = [pc EXCEPT ![w] = "w_except"]
    /\ UNCHANGED <<rows, seen, storeVars, indexVars, readyVars, reqVars,
                   cacheVars, poolVars, lawsVars, utilVars>>

\* raw_scores = self._matrix @ query_vec
SearchMatrix(w) ==
    /\ pc[w] = "search_matrix"
    /\ seen' = [seen EXCEPT ![w].matrix = matrix]
    /\ pc' = [pc EXCEPT ![w] = "search_boost"]
    /\ UNCHANGED <<rows, storeVars, indexVars, readyVars, reqVars, cacheVars,
                   poolVars, lawsVars, utilVars>>

\* final_scores = raw_scores * self._boost_factors; when the shapes differ
\* numpy either broadcasts or raises ValueError
SearchBoost(w) ==
    /\ pc[w] = "search_boost"
    /\ seen' = [seen EXCEPT ![w].boost = boost_factors]
    /\ \/ pc' = [pc EXCEPT ![w] = "search_ids"]
       \/ /\ Len(boost_factors.rows) # Len(seen[w].matrix.rows)
          /\ pc' = [pc EXCEPT ![w] = "w_except"]
    /\ UNCHANGED <<rows, storeVars, indexVars, readyVars, reqVars, cacheVars,
                   poolVars, lawsVars, utilVars>>

\* number of scores final_scores holds after the two reads
NumScores(s) == Min(Len(s.matrix.rows), Len(s.boost.rows))

\* results.append({'article_id': int(self._article_ids[idx]), ...}) for the
\* top indices: IndexError when the array read here is shorter
SearchIds(w) ==
    /\ pc[w] = "search_ids"
    /\ seen' = [seen EXCEPT ![w].ids2 = article_ids]
    /\ pc' = [pc EXCEPT ![w] =
                IF Len(article_ids.rows) < NumScores(seen[w])
                THEN "w_except" ELSE "w_write"]
    /\ UNCHANGED <<rows, storeVars, indexVars, readyVars, reqVars, cacheVars,
                   poolVars, lawsVars, utilVars>>

\* the hits idx.search returns: [] from the early return, otherwise one hit
\* per score, carrying the article id found at that index
SearchHits(s) ==
    IF ~s.ids2.set THEN <<>> ELSE SubSeq(s.ids2.rows, 1, NumScores(s))

\* search_result_holder["hits"] = idx.search(...)
WorkerWrite(w) ==
    /\ pc[w] = "w_write"
    /\ holder' = [holder EXCEPT ![ReqOf(w)] = SearchHits(seen[w])]
    /\ pc' = [pc EXCEPT ![w] = "w_done"]
    /\ UNCHANGED <<rows, seen, storeVars, indexVars, readyVars, rpc, kind,
                   nonvec, after_failed, waited, join_expired, vec_hits,
                   response, cacheVars, poolVars, lawsVars, utilVars>>

\* the search is not wrapped in try/except: its exception ends the request
WorkerExcept_Propagates(w) ==
    /\ pc[w] = "w_except"
    /\ pc' = [pc EXCEPT ![w] = "w_done"]
    /\ rpc' = [rpc EXCEPT ![ReqOf(w)] = "raised"]
    /\ UNCHANGED <<rows, seen, storeVars, indexVars, readyVars, kind, nonvec,
                   after_failed, waited, join_expired, holder, vec_hits,
                   response, cacheVars, poolVars, lawsVars, utilVars>>

\* except Exception as e: logger.error(...)
WorkerExcept(w) ==
    /\ pc[w] = "w_except"
    /\ pc' = [pc EXCEPT ![w] = "w_done"]
    /\ UNCHANGED <<rows, seen, storeVars, indexVars, readyVars, reqVars,
                   cacheVars, poolVars, lawsVars, utilVars>>

Worker(w) ==
    \/ Load(w)
    \/ SearchLen(w)
    \/ SearchEncode(w)
    \/ SearchEncodeFail(w)
    \/ SearchMatrix(w)
    \/ SearchBoost(w)
    \/ SearchIds(w)
    \/ WorkerWrite(w)
    \/ WorkerExcept(w)

(***************************************************************************)
(* The vector stage of a request: search_laws (lines 519-568) and          *)
(* search_article_content (lines 1035-1089).  The rows the alias, concept  *)
(* and FTS/LIKE paths produced are in nonvec when the stage begins.        *)
(***************************************************************************)
Kinds == {"search_laws", "search_article_content"}
\* result keys the non-vector paths can produce, and cacheable query strings
Keys == {"k1"}
Queries == {"q1"}

\* t.is_alive()
Alive(r) == pc[WorkerT(r)] \notin {"idle", "w_done"}

\* the request begins: the alias and concept resolutions go through their
\* lru caches, the FTS/LIKE ladder runs, and the vector stage is entered if
\* vdb and (search_laws only) input_results_count < limit or len(query) > 4
ReqStart(r) ==
    /\ rpc[r] = "idle"
    /\ \E k \in Kinds, nv \in SUBSET Keys, q \in Queries, wanted \in BOOLEAN :
        /\ k = "search_article_content" => wanted
        /\ kind' = [kind EXCEPT ![r] = k]
        /\ nonvec' = [nonvec EXCEPT ![r] = nv]
        /\ after_failed' = [after_failed EXCEPT ![r] =
                               preload_outcome = "failed"]
        /\ alias_cache' = alias_cache \cup {q}
        /\ concept_cache' = concept_cache \cup {q}
        /\ law_cache' = IF k = "search_laws" THEN law_cache \cup {q}
                        ELSE law_cache
        /\ rpc' = [rpc EXCEPT ![r] = IF vdb /\ wanted THEN "gate"
                                     ELSE "assemble"]
    /\ UNCHANGED <<storeVars, indexVars, threadVars, readyVars, waited,
                   join_expired, holder, vec_hits, response, cc_store,
                   poolVars, lawsVars, utilVars>>

\* time passes while the request blocks in _vector_ready.wait(timeout=15.0)
GateTick(r) ==
    /\ rpc[r] = "gate"
    /\ ~vector_ready
    /\ waited[r] < GateTimeout
    /\ waited' = [waited EXCEPT ![r] = Min(@ + TickStep, GateTimeout)]
    /\ UNCHANGED <<storeVars, indexVars, threadVars, readyVars, rpc, kind,
                   nonvec, after_failed, join_expired, holder, vec_hits,
                   response, cacheVars, poolVars, lawsVars, utilVars>>

\* the wait returns: the event is set, or the timeout has elapsed
GatePass(r) ==
    /\ rpc[r] = "gate"
    /\ vector_ready \/ waited[r] >= GateTimeout
    /\ rpc' = [rpc EXCEPT ![r] = "spawn"]
    /\ UNCHANGED <<storeVars, indexVars, threadVars, readyVars, kind, nonvec,
                   after_failed, waited, join_expired, holder, vec_hits,
                   response, cacheVars, poolVars, lawsVars, utilVars>>

\* holder = {"hits": []}; t = threading.Thread(target=...); t.start();
\* t.join(timeout=10.0) begins
Spawn(r) ==
    /\ rpc[r] = "spawn"
    /\ holder' = [holder EXCEPT ![r] = <<>>]
    /\ pc' = [pc EXCEPT ![WorkerT(r)] = "load_check"]
    /\ waited' = [waited EXCEPT ![r] = 0]
    /\ rpc' = [rpc EXCEPT ![r] = "join"]
    /\ UNCHANGED <<rows, seen, storeVars, indexVars, readyVars, kind, nonvec,
                   after_failed, join_expired, vec_hits, response, cacheVars,
                   poolVars, lawsVars, utilVars>>

\* time passes while the request blocks in t.join(timeout=10.0)
JoinTick(r) ==
    /\ rpc[r] = "join"
    /\ Alive(r)
    /\ waited[r] < JoinTimeout
    /\ waited' = [waited EXCEPT ![r] = Min(@ + TickStep, JoinTimeout)]
    /\ UNCHANGED <<storeVars, indexVars, threadVars, readyVars, rpc, kind,
                   nonvec, after_failed, join_expired, holder, vec_hits,
                   response, cacheVars, poolVars, lawsVars, utilVars>>

\* t.join() without a timeout: it returns when the worker has ended
JoinReturn_NoTimeout(r) ==
    /\ rpc[r] = "join"
    /\ ~Alive(r)
    /\ join_expired' = [join_expired EXCEPT ![r] = FALSE]
    /\ waited' = [waited EXCEPT ![r] = 0]
    /\ rpc' = [rpc EXCEPT ![r] = "alive_check"]
    /\ UNCHANGED <<storeVars, indexVars, threadVars, readyVars, kind, nonvec,
                   after_failed, holder, vec_hits, response, cacheVars,
                   poolVars, lawsVars, utilVars>>

\* the join returns: the worker has ended, or the timeout has elapsed
JoinReturn(r) ==
    /\ rpc[r] = "join"
    /\ ~Alive(r) \/ waited[r] >= JoinTimeout
    /\ join_expired' = [join_expired EXCEPT ![r] = Alive(r)]
    /\ waited' = [waited EXCEPT ![r] = 0]
    /\ rpc' = [rpc EXCEPT ![r] = "alive_check"]
    /\ UNCHANGED <<storeVars, indexVars, threadVars, readyVars, kind, nonvec,
                   after_failed, holder, vec_hits, response, cacheVars,
                   poolVars, lawsVars, utilVars>>

\* if t.is_alive(): logger.warning(...).  search_article_content reads the
\* holder only in the else branch; search_laws reads it on both branches
AliveCheck(r) ==
    /\ rpc[r] = "alive_check"
    /\ rpc' = [rpc EXCEPT ![r] =
                 IF Alive(r) /\ kind[r] = "search_article_content"
                 THEN "assemble" ELSE "read_holder"]
    /\ UNCHANGED <<storeVars, indexVars, threadVars, readyVars, kind, nonvec,
                   after_failed, waited, join_expired, holder, vec_hits,
                   response, cacheVars, poolVars, lawsVars, utilVars>>

\* vec_hits = holder["hits"]; if vec_hits: ...
ReadHolder(r) ==
    /\ rpc[r] = "read_holder"
    /\ vec_hits' = [vec_hits EXCEPT ![r] = holder[r]]
    /\ rpc' = [rpc EXCEPT ![r] = IF holder[r] # <<>> THEN "fetch"
                                 ELSE "assemble"]
    /\ UNCHANGED <<storeVars, indexVars, threadVars, readyVars, kind, nonvec,
                   after_failed, waited, join_expired, holder, response,
                   cacheVars, poolVars, lawsVars, utilVars>>

\* the rows of law_articles for the hit ids are fetched (rows_map); a hit
\* whose article is missing from the store is dropped
FetchRows(r) ==
    /\ rpc[r] = "fetch"
    /\ vec_hits' = [vec_hits EXCEPT ![r] =
                      SelectSeq(@, LAMBDA a : a <= Len(store_rows))]
    /\ rpc' = [rpc EXCEPT ![r] = "assemble"]
    /\ UNCHANGED <<storeVars, indexVars, threadVars, readyVars, kind, nonvec,
                   after_failed, waited, join_expired, holder, response,
                   cacheVars, poolVars, lawsVars, utilVars>>

\* the fetch raises (store error): search_article_content catches it (line
\* 1088) and goes on with no vector rows; in search_laws nothing catches it
FetchRowsFail(r) ==
    /\ rpc[r] = "fetch"
    /\ vec_hits' = [vec_hits EXCEPT ![r] = <<>>]
    /\ rpc' = [rpc EXCEPT ![r] = IF kind[r] = "search_article_content"
                                 THEN "assemble" ELSE "raised"]
    /\ UNCHANGED <<storeVars, indexVars, threadVars, readyVars, kind, nonvec,
                   after_failed, waited, join_expired, holder, response,
                   cacheVars, poolVars, lawsVars, utilVars>>

\* the response is built from the non-vector rows and the vector rows
Assemble(r) ==
    /\ rpc[r] = "assemble"
    /\ response' = [response EXCEPT ![r] =
                      [rows |-> nonvec[r], vector |-> vec_hits[r]]]
    /\ rpc' = [rpc EXCEPT ![r] = "done"]
    /\ UNCHANGED <<storeVars, indexVars, threadVars, readyVars, kind, nonvec,
                   after_failed, waited, join_expired, holder, vec_hits,
                   cacheVars, poolVars, lawsVars, utilVars>>

Request(r) ==
    \/ ReqStart(r)
    \/ GateTick(r)
    \/ GatePass(r)
    \/ Spawn(r)
    \/ JoinTick(r)
    \/ JoinReturn(r)
    \/ AliveCheck(r)
    \/ ReadHolder(r)
    \/ FetchRows(r)
    \/ FetchRowsFail(r)
    \/ Assemble(r)

(***************************************************************************)
(* clear_caches (lines 1282-1303) and VectorIndex.reload.                  *)
(***************************************************************************)
CcCall ==
    /\ pc[ClearT] = "cc_idle"
    /\ cc_store' = store_rows
    /\ pc' = [pc EXCEPT ![ClearT] = "cc_clear_alias"]
    /\ UNCHANGED <<rows, seen, storeVars, indexVars, readyVars, reqVars,
                   alias_cache, law_cache, concept_cache, poolVars, lawsVars,
                   utilVars>>

\* resolve_law_alias_cached.cache_clear()
CcClearAlias ==
    /\ pc[ClearT] = "cc_clear_alias"
    /\ alias_cache' = {}
    /\ pc' = [pc EXCEPT ![ClearT] = "cc_clear_law"]
    /\ UNCHANGED <<rows, seen, storeVars, indexVars, readyVars, reqVars,
                   law_cache, concept_cache, cc_store, poolVars, lawsVars,
                   utilVars>>

\* get_law_by_id_cached.cache_clear()
CcClearLaw ==
    /\ pc[ClearT] = "cc_clear_law"
    /\ law_cache' = {}
    /\ pc' = [pc EXCEPT ![ClearT] = "cc_clear_concept"]
    /\ UNCHANGED <<rows, seen, storeVars, indexVars, readyVars, reqVars,
                   alias_cache, concept_cache, cc_store, poolVars, lawsVars,
                   utilVars>>

\* resolve_concept_cached.cache_clear(); if vdb: ... vec_index.reload()
CcClearConcept ==
    /\ pc[ClearT] = "cc_clear_concept"
    /\ concept_cache' = {}
    /\ pc' = [pc EXCEPT ![ClearT] = IF vdb THEN "cc_reload" ELSE "cc_return"]
    /\ UNCHANGED <<rows, seen, storeVars, indexVars, readyVars, reqVars,
                   alias_cache, law_cache, cc_store, poolVars, lawsVars,
                   utilVars>>

\* reload(): self._loaded = False; self._load()
Reload ==
    /\ pc[ClearT] = "cc_reload"
    /\ loaded' = FALSE
    /\ pc' = [pc EXCEPT ![ClearT] = "load_check"]
    /\ UNCHANGED <<rows, seen, storeVars, article_ids, matrix, boost_factors,
                   lock, load_count, load_raised, readyVars, reqVars,
                   cacheVars, poolVars, lawsVars, utilVars>>

\* return "... 所有缓存已清除 ..." (an exception of reload was logged)
CcReturn ==
    /\ pc[ClearT] = "cc_return"
    /\ pc' = [pc EXCEPT ![ClearT] = "cc_done"]
    /\ UNCHANGED <<rows, seen, storeVars, indexVars, readyVars, reqVars,
                   cacheVars, poolVars, lawsVars, utilVars>>

ClearCaches ==
    \/ CcCall
    \/ CcClearAlias
    \/ CcClearLaw
    \/ CcClearConcept
    \/ Reload
    \/ CcReturn
    \/ Load(ClearT)

(***************************************************************************)
(* ConnectionPool (lines 73-110).  The two critical sections of            *)
(* get_connection run under self.lock, so each is one step.                *)
(***************************************************************************)
engineVars == <<storeVars, indexVars, threadVars, readyVars, reqVars,
                cacheVars>>

\* the connections in the free list, and those a scope holds
IdleConns == {connections[i] : i \in DOMAIN connections}
Holding == {s \in Scopes : spc[s] \in {"body", "exit_normal", "exit_raised"}}
CheckedOut == {sconn[s] : s \in Holding}

\* the scope takes the last connection of the free list and leaves it there
PoolAcquire_NoPop(s) ==
    /\ spc[s] = "idle"
    /\ IF connections # <<>>
       THEN /\ sconn' = [sconn EXCEPT ![s] = connections[Len(connections)]]
            /\ UNCHANGED <<connections, next_conn>>
       ELSE /\ sconn' = [sconn EXCEPT ![s] = next_conn]
            /\ next_conn' = next_conn + 1
            /\ UNCHANGED connections
    /\ spc' = [spc EXCEPT ![s] = "body"]
    /\ UNCHANGED <<pool_size, closed, engineVars, lawsVars, utilVars>>

\* with self.lock: conn = self.connections.pop() if the free list is not
\* empty, otherwise a new connection is opened; then the body is entered
PoolAcquire(s) ==
    /\ spc[s] = "idle"
    /\ IF connections # <<>>
       THEN /\ sconn' = [sconn EXCEPT ![s] = connections[Len(connections)]]
            /\ connections' = SubSeq(connections, 1, Len(connections) - 1)
            /\ UNCHANGED next_conn
       ELSE /\ sconn' = [sconn EXCEPT ![s] = next_conn]
            /\ next_conn' = next_conn + 1
            /\ UNCHANGED connections
    /\ spc' = [spc EXCEPT ![s] = "body"]
    /\ UNCHANGED <<pool_size, closed, engineVars, lawsVars, utilVars>>

\* the free list is empty and sqlite3.connect raises: the caller gets the
\* exception and no connection
PoolAcquireFail(s) ==
    /\ spc[s] = "idle"
    /\ connections = <<>>
    /\ spc' = [spc EXCEPT ![s] = "failed"]
    /\ UNCHANGED <<pool_size, connections, next_conn, closed, sconn,
                   engineVars, lawsVars, utilVars>>

\* the body of the with statement ends normally (or by return)
BodyReturn(s) ==
    /\ spc[s] = "body"
    /\ spc' = [spc EXCEPT ![s] = "exit_normal"]
    /\ UNCHANGED <<pool_size, connections, next_conn, closed, sconn,
                   engineVars, lawsVars, utilVars>>

\* the body of the with statement raises
BodyRaise(s) ==
    /\ spc[s] = "body"
    /\ spc' = [spc EXCEPT ![s] = "exit_raised"]
    /\ UNCHANGED <<pool_size, connections, next_conn, closed, sconn,
                   engineVars, lawsVars, utilVars>>

\* the free list keeps every connection released to it
FreeListHasRoom_Always == TRUE

\* if len(self.connections) < self.pool_size
FreeListHasRoom == Len(connections) < pool_size

\* the connection is released when the body ends normally only
PoolRelease_NormalOnly(s) ==
    /\ spc[s] \in {"exit_normal", "exit_raised"}
    /\ IF spc[s] = "exit_raised"
       THEN UNCHANGED <<connections, closed>>
       ELSE IF FreeListHasRoom
       THEN connections' = Append(connections, sconn[s]) /\ UNCHANGED closed
       ELSE closed' = closed \cup {sconn[s]} /\ UNCHANGED connections
    /\ spc' = [spc EXCEPT ![s] = IF spc[s] = "exit_normal"
                                 THEN "ended_normal" ELSE "ended_raised"]
    /\ UNCHANGED <<pool_size, next_conn, sconn, engineVars, lawsVars,
                   utilVars>>

\* finally: with self.lock: the connection is appended to the free list if
\* that has room, and closed otherwise
PoolRelease(s) ==
    /\ spc[s] \in {"exit_normal", "exit_raised"}
    /\ IF FreeListHasRoom
       THEN connections' = Append(connections, sconn[s]) /\ UNCHANGED closed
       ELSE closed' = closed \cup {sconn[s]} /\ UNCHANGED connections
    /\ spc' = [spc EXCEPT ![s] = IF spc[s] = "exit_normal"
                                 THEN "ended_normal" ELSE "ended_raised"]
    /\ UNCHANGED <<pool_size, next_conn, sconn, engineVars, lawsVars,
                   utilVars>>

Scope(s) ==
    \/ PoolAcquire(s)
    \/ PoolAcquireFail(s)
    \/ BodyReturn(s)
    \/ BodyRaise(s)
    \/ PoolRelease(s)

(***************************************************************************)
(* search_laws (lines 373-637): its retrieval paths in program order.      *)
(* The laws table holds the laws 1..NumLaws, each with a category and a    *)
(* status.  Every query of the store returns rows that satisfy its WHERE   *)
(* clause, at most LIMIT of them, or raises (store error); lfail collects  *)
(* the paths whose query raised.  A result of the laws table is the set of *)
(* the law ids of its rows; the vector result is a list of law ids, one    *)
(* per hit article, so a law can occur in it more than once.               *)
(***************************************************************************)
Categories == {"c1", "c2"}
\* the statuses of a law: in force (有效) and repealed (失效)
Statuses == {"in_force", "repealed"}
\* a parameter that is None or empty: the filter is not applied
NoFilter == ""

\* the category and the status of the rows of the laws table
LawCategory(l) == IF l % 3 = 1 THEN "c1" ELSE "c2"
LawStatus(l) == IF l % 2 = 1 THEN "in_force" ELSE "repealed"

\* l.status = '有效' in the alias and concept queries
InForce == {l \in Laws : LawStatus(l) = "in_force"}

\* if category: sql += " AND l.category = ?"; if status: " AND l.status = ?"
PassesFilters(l) ==
    /\ lcategory # NoFilter => LawCategory(l) = lcategory
    /\ lstatus # NoFilter => LawStatus(l) = lstatus

\* the results a query with LIMIT ? can return out of the matching laws
Limited(S) == {R \in SUBSET S : Cardinality(R) <= llimit}

\* the rows of a result of the laws table, as a list
RECURSIVE SetToSeq(_)
SetToSeq(S) ==
    IF S = {} THEN <<>>
    ELSE LET x == CHOOSE y \in S : \A z \in S : y <= z
         IN <<x>> \o SetToSeq(S \ {x})

\* the law ids of the vector rows: up to two hit articles are followed
VecRows == {<<>>} \cup {<<a>> : a \in Laws} \cup {<<a, b>> : a, b \in Laws}

NoPayload == [alias |-> 0, concept |-> {}, rows |-> <<>>]

\* the position after the phrase and AND rungs (lines 439, 458, 501)
AfterPhrase(res, multi) ==
    IF res = {} /\ multi THEN "fts_and"
    ELSE IF res = {} THEN "like_title"
    ELSE "vector"

AfterAnd(res) == IF res = {} THEN "like_title" ELSE "vector"

\* the OR rung follows the fallback whatever the fallback returned
AfterFallback_OrAlways(fb, multi) == IF multi THEN "fts_or" ELSE "vector"

\* if not results and not fallback_results and len(tokens) > 1 (line 501)
AfterFallback(fb, multi) == IF fb = {} /\ multi THEN "fts_or" ELSE "vector"

\* search_laws(query, category, status, limit) is called; the query has
\* more than one token or not, and more than four characters or not
LStart ==
    /\ lpc = "idle"
    /\ lmulti' \in BOOLEAN
    /\ llong' \in BOOLEAN
    /\ lcategory' \in Categories \cup {NoFilter}
    /\ lstatus' \in Statuses \cup {NoFilter}
    /\ llimit' \in 1..MaxLimit
    /\ lpc' = "alias"
    /\ UNCHANGED <<lfail, lalias, lshown, lconcept, lconceptshown, lresults,
                   lfallback, lvecrun, lvector, lpayload, engineVars,
                   poolVars, utilVars>>

\* alias_match = resolve_law_alias_cached(query): a law in force, or None
LAlias ==
    /\ lpc = "alias"
    /\ lalias' \in {0} \cup InForce
    /\ lpc' = IF lalias' # 0 THEN "law_by_id" ELSE "concept"
    /\ UNCHANGED <<lfail, lmulti, llong, lcategory, lstatus, llimit, lshown,
                   lconcept, lconceptshown, lresults, lfallback, lvecrun,
                   lvector, lpayload, engineVars, poolVars, utilVars>>

\* the alias query raises: except Exception: return None (line 147)
LAliasFail ==
    /\ lpc = "alias"
    /\ lfail' = lfail \cup {"alias"}
    /\ lalias' = 0
    /\ lpc' = "concept"
    /\ UNCHANGED <<lmulti, llong, lcategory, lstatus, llimit, lshown,
                   lconcept, lconceptshown, lresults, lfallback, lvecrun,
                   lvector, lpayload, engineVars, poolVars, utilVars>>

\* law_info = get_law_by_id_cached(law_id); the exact match is shown
\* if law_info and (not category or law_info[2] == category)
LLawById ==
    /\ lpc = "law_by_id"
    /\ lshown' = (lcategory = NoFilter \/ LawCategory(lalias) = lcategory)
    /\ lpc' = "concept"
    /\ UNCHANGED <<lfail, lmulti, llong, lcategory, lstatus, llimit, lalias,
                   lconcept, lconceptshown, lresults, lfallback, lvecrun,
                   lvector, lpayload, engineVars, poolVars, utilVars>>

\* the query of get_law_by_id_cached raises (line 156): nothing catches it
LLawByIdFail ==
    /\ lpc = "law_by_id"
    /\ lfail' = lfail \cup {"law_by_id"}
    /\ lpc' = "raised"
    /\ UNCHANGED <<lmulti, llong, lcategory, lstatus, llimit, lalias, lshown,
                   lconcept, lconceptshown, lresults, lfallback, lvecrun,
                   lvector, lpayload, engineVars, poolVars, utilVars>>

\* concept_hits = resolve_concept_cached(query): topics of laws in force
LConcept ==
    /\ lpc = "concept"
    /\ lconcept' \in SUBSET InForce
    /\ lpc' = IF lconcept' # {} THEN "concept_format" ELSE "fts_phrase"
    /\ UNCHANGED <<lfail, lmulti, llong, lcategory, lstatus, llimit, lalias,
                   lshown, lconceptshown, lresults, lfallback, lvecrun,
                   lvector, lpayload, engineVars, poolVars, utilVars>>

\* a query of resolve_concept_cached raises: each is in its own try/except,
\* so the lookups that did not raise still contribute
LConceptFail ==
    /\ lpc = "concept"
    /\ lfail' = lfail \cup {"concept"}
    /\ lconcept' \in SUBSET InForce
    /\ lpc' = IF lconcept' # {} THEN "concept_format" ELSE "fts_phrase"
    /\ UNCHANGED <<lmulti, llong, lcategory, lstatus, llimit, lalias, lshown,
                   lconceptshown, lresults, lfallback, lvecrun, lvector,
                   lpayload, engineVars, poolVars, utilVars>>

\* format_concept_results(concept_hits, query, limit): one entry per law, in
\* the order of relevance, until len(entries) >= limit
LConceptFormat ==
    /\ lpc = "concept_format"
    /\ lconceptshown' \in
          {S \in SUBSET lconcept :
              Cardinality(S) = Min(llimit, Cardinality(lconcept))}
    /\ lpc' = "fts_phrase"
    /\ UNCHANGED <<lfail, lmulti, llong, lcategory, lstatus, llimit, lalias,
                   lshown, lconcept, lresults, lfallback, lvecrun, lvector,
                   lpayload, engineVars, poolVars, utilVars>>

\* a get_law_by_id_cached of format_concept_results raises: not caught
LConceptFormatFail ==
    /\ lpc = "concept_format"
    /\ lfail' = lfail \cup {"law_by_id"}
    /\ lpc' = "raised"
    /\ UNCHANGED <<lmulti, llong, lcategory, lstatus, llimit, lalias, lshown,
                   lconcept, lconceptshown, lresults, lfallback, lvecrun,
                   lvector, lpayload, engineVars, poolVars, utilVars>>

\* the laws the FTS rungs can return: category and status filters applied
\* (lines 416-417, 508-509)
FtsMatches == {l \in Laws : PassesFilters(l)}

\* the laws the LIKE fallback can return: its SQL has the LIKE terms only
\* (lines 464-471, 480-488)
LikeMatches == Laws

\* the phrase FTS query (lines 422-424)
LPhrase ==
    /\ lpc = "fts_phrase"
    /\ lresults' \in Limited(FtsMatches)
    /\ lpc' = AfterPhrase(lresults', lmulti)
    /\ UNCHANGED <<lfail, lmulti, llong, lcategory, lstatus, llimit, lalias,
                   lshown, lconcept, lconceptshown, lfallback, lvecrun,
                   lvector, lpayload, engineVars, poolVars, utilVars>>

\* except Exception: results = [] (lines 425-427)
LPhraseFail ==
    /\ lpc = "fts_phrase"
    /\ lfail' = lfail \cup {"fts_phrase"}
    /\ lresults' = {}
    /\ lpc' = AfterPhrase({}, lmulti)
    /\ UNCHANGED <<lmulti, llong, lcategory, lstatus, llimit, lalias, lshown,
                   lconcept, lconceptshown, lfallback, lvecrun, lvector,
                   lpayload, engineVars, poolVars, utilVars>>

\* the AND FTS query (lines 442-444)
LAnd ==
    /\ lpc = "fts_and"
    /\ lresults' \in Limited(FtsMatches)
    /\ lpc' = AfterAnd(lresults')
    /\ UNCHANGED <<lfail, lmulti, llong, lcategory, lstatus, llimit, lalias,
                   lshown, lconcept, lconceptshown, lfallback, lvecrun,
                   lvector, lpayload, engineVars, poolVars, utilVars>>

\* except Exception: logger.warning (lines 445-446); results stays empty
LAndFail ==
    /\ lpc = "fts_and"
    /\ lfail' = lfail \cup {"fts_and"}
    /\ lpc' = AfterAnd(lresults)
    /\ UNCHANGED <<lmulti, llong, lcategory, lstatus, llimit, lalias, lshown,
                   lconcept, lconceptshown, lresults, lfallback, lvecrun,
                   lvector, lpayload, engineVars, poolVars, utilVars>>

\* the title LIKE query (lines 473-474); rows_title is the fallback result
\* when it is not empty
LLikeTitle ==
    /\ lpc = "like_title"
    /\ lfallback' \in Limited(LikeMatches)
    /\ lpc' = IF lfallback' = {} THEN "like_content"
              ELSE AfterFallback(lfallback', lmulti)
    /\ UNCHANGED <<lfail, lmulti, llong, lcategory, lstatus, llimit, lalias,
                   lshown, lconcept, lconceptshown, lresults, lvecrun,
                   lvector, lpayload, engineVars, poolVars, utilVars>>

\* the title LIKE query raises: nothing catches it
LLikeTitleFail ==
    /\ lpc = "like_title"
    /\ lfail' = lfail \cup {"like_title"}
    /\ lpc' = "raised"
    /\ UNCHANGED <<lmulti, llong, lcategory, lstatus, llimit, lalias, lshown,
                   lconcept, lconceptshown, lresults, lfallback, lvecrun,
                   lvector, lpayload, engineVars, poolVars, utilVars>>

\* the content LIKE query (lines 490-494);
\* fallback_results = rows_title + rows_content
LLikeContent ==
    /\ lpc = "like_content"
    /\ lfallback' \in Limited(LikeMatches)
    /\ lpc' = AfterFallback(lfallback', lmulti)
    /\ UNCHANGED <<lfail, lmulti, llong, lcategory, lstatus, llimit, lalias,
                   lshown, lconcept, lconceptshown, lresults, lvecrun,
                   lvector, lpayload, engineVars, poolVars, utilVars>>

\* except Exception: log_debug (lines 495-496); rows_content stays empty
LLikeContentFail ==
    /\ lpc = "like_content"
    /\ lfail' = lfail \cup {"like_content"}
    /\ lpc' = AfterFallback(lfallback, lmulti)
    /\ UNCHANGED <<lmulti, llong, lcategory, lstatus, llimit, lalias, lshown,
                   lconcept, lconceptshown, lresults, lfallback, lvecrun,
                   lvector, lpayload, engineVars, poolVars, utilVars>>

\* the OR FTS query (lines 513-515)
LOr ==
    /\ lpc = "fts_or"
    /\ lresults' \in Limited(FtsMatches)
    /\ lpc' = "vector"
    /\ UNCHANGED <<lfail, lmulti, llong, lcategory, lstatus, llimit, lalias,
                   lshown, lconcept, lconceptshown, lfallback, lvecrun,
                   lvector, lpayload, engineVars, poolVars, utilVars>>

\* except Exception: logger.warning (lines 516-517)
LOrFail ==
    /\ lpc = "fts_or"
    /\ lfail' = lfail \cup {"fts_or"}
    /\ lpc' = "vector"
    /\ UNCHANGED <<lmulti, llong, lcategory, lstatus, llimit, lalias, lshown,
                   lconcept, lconceptshown, lresults, lfallback, lvecrun,
                   lvector, lpayload, engineVars, poolVars, utilVars>>

\* input_results_count = len(results) + len(fallback_results)
InputResultsCount == Cardinality(lresults) + Cardinality(lfallback)

\* the vector stage runs whatever the length of the query
VectorWanted_CountOnly == vdb /\ InputResultsCount < llimit

\* if vdb and (input_results_count < limit or len(query) > 4)
VectorWanted == vdb /\ (InputResultsCount < llimit \/ llong)

\* the condition of line 524 is false: no wait on the event, no worker
LVectorSkip ==
    /\ lpc = "vector"
    /\ ~VectorWanted
    /\ lpc' = "add_rows"
    /\ UNCHANGED <<lfail, lmulti, llong, lcategory, lstatus, llimit, lalias,
                   lshown, lconcept, lconceptshown, lresults, lfallback,
                   lvecrun, lvector, lpayload, engineVars, poolVars,
                   utilVars>>

\* the stage runs (wait, worker, join) and the holder has no hits
LVectorNone ==
    /\ lpc = "vector"
    /\ VectorWanted
    /\ lvecrun' = TRUE
    /\ lpc' = "add_rows"
    /\ UNCHANGED <<lfail, lmulti, llong, lcategory, lstatus, llimit, lalias,
                   lshown, lconcept, lconceptshown, lresults, lfallback,
                   lvector, lpayload, engineVars, poolVars, utilVars>>

\* the stage runs and the holder has hits: if vec_hits
LVectorHits ==
    /\ lpc = "vector"
    /\ VectorWanted
    /\ lvecrun' = TRUE
    /\ lpc' = "vector_fetch"
    /\ UNCHANGED <<lfail, lmulti, llong, lcategory, lstatus, llimit, lalias,
                   lshown, lconcept, lconceptshown, lresults, lfallback,
                   lvector, lpayload, engineVars, poolVars, utilVars>>

\* the rows of the hit articles are fetched (lines 551-568), one row per
\* article with the id of its law first; a hit whose article is not in the
\* store is dropped; the query has no category or status condition
LVectorFetch ==
    /\ lpc = "vector_fetch"
    /\ lvector' \in VecRows
    /\ lpc' = "add_rows"
    /\ UNCHANGED <<lfail, lmulti, llong, lcategory, lstatus, llimit, lalias,
                   lshown, lconcept, lconceptshown, lresults, lfallback,
                   lvecrun, lpayload, engineVars, poolVars, utilVars>>

\* the fetch raises: nothing catches it
LVectorFetchFail ==
    /\ lpc = "vector_fetch"
    /\ lfail' = lfail \cup {"vector_fetch"}
    /\ lpc' = "raised"
    /\ UNCHANGED <<lmulti, llong, lcategory, lstatus, llimit, lalias, lshown,
                   lconcept, lconceptshown, lresults, lfallback, lvecrun,
                   lvector, lpayload, engineVars, poolVars, utilVars>>

\* seen_ids starts with the alias law only
SeenFirst_AliasOnly == IF lalias # 0 THEN {lalias} ELSE {}

\* seen_ids starts with the concept laws and the alias law (lines 610-616)
SeenFirst == lconcept \cup (IF lalias # 0 THEN {lalias} ELSE {})

\* add_rows(rows): a row whose law_id is in seen_ids is skipped, the others
\* are appended to final_rows and their law_id added to seen_ids
RECURSIVE AddRows(_, _, _)
AddRows(rws, seenIds, final) ==
    IF rws = <<>> THEN final
    ELSE IF Head(rws) \in seenIds THEN AddRows(Tail(rws), seenIds, final)
    ELSE AddRows(Tail(rws), seenIds \cup {Head(rws)},
                 Append(final, Head(rws)))

\* add_rows(fallback_results); add_rows(results); add_rows(vector_results)
FinalRows ==
    AddRows(SetToSeq(lfallback) \o SetToSeq(lresults) \o lvector,
            SeenFirst, <<>>)

\* add_rows for the three results, then the parts are joined and returned;
\* the payload with no part is the message 未找到相关法律法规。
LAddRows ==
    /\ lpc = "add_rows"
    /\ lpayload' = [alias |-> IF lshown THEN lalias ELSE 0,
                    concept |-> lconceptshown,
                    rows |-> FinalRows]
    /\ lpc' = "returned"
    /\ UNCHANGED <<lfail, lmulti, llong, lcategory, lstatus, llimit, lalias,
                   lshown, lconcept, lconceptshown, lresults, lfallback,
                   lvecrun, lvector, engineVars, poolVars, utilVars>>

\* with concept hits, add_rows calls get_law_by_id_cached for each law it
\* adds (line 601); its query raises and nothing catches it
LAddRowsFail ==
    /\ lpc = "add_rows"
    /\ lconcept # {}
    /\ FinalRows # <<>>
    /\ lfail' = lfail \cup {"law_by_id"}
    /\ lpc' = "raised"
    /\ UNCHANGED <<lmulti, llong, lcategory, lstatus, llimit, lalias, lshown,
                   lconcept, lconceptshown, lresults, lfallback, lvecrun,
                   lvector, lpayload, engineVars, poolVars, utilVars>>

SearchLaws ==
    \/ LStart
    \/ LAlias
    \/ LAliasFail
    \/ LLawById
    \/ LLawByIdFail
    \/ LConcept
    \/ LConceptFail
    \/ LConceptFormat
    \/ LConceptFormatFail
    \/ LPhrase
    \/ LPhraseFail
    \/ LAnd
    \/ LAndFail
    \/ LLikeTitle
    \/ LLikeTitleFail
    \/ LLikeContent
    \/ LLikeContentFail
    \/ LOr
    \/ LOrFail
    \/ LVectorSkip
    \/ LVectorNone
    \/ LVectorHits
    \/ LVectorFetch
    \/ LVectorFetchFail
    \/ LAddRows
    \/ LAddRowsFail

(***************************************************************************)
(* resolve_law_alias_cached (lines 121-149).  alias_rows is law_aliases    *)
(* joined with laws: per row the law, how the alias compares with the      *)
(* query, the confidence (in percent), and the publish_date and status of  *)
(* the law.                                                                *)
(***************************************************************************)
Confidences == {50, 100}
Dates == 1..MaxDate
\* la.alias = query; la.alias LIKE %query% but not equal; neither
Matches == {"exact", "substring", "none"}
AliasRow == [law : Laws, match : Matches, confidence : Confidences,
             publish_date : Dates, status : Statuses]

\* a law has one publish_date and one status
OneLawOneRecord(T) ==
    \A r1, r2 \in T :
        r1.law = r2.law =>
            r1.publish_date = r2.publish_date /\ r1.status = r2.status

\* the tables of up to two alias rows
AliasTables ==
    {T \in {{r1, r2} : r1, r2 \in AliasRow} \cup {{}} : OneLawOneRecord(T)}

\* the result None, and the result row (l.id, confidence)
NoRow == [law |-> 0, confidence |-> 0]
ResultRow(l, c) == [law |-> l, confidence |-> c]

\* WHERE la.alias = ? AND l.status = '有效'
ExactRows(T) == {r \in T : r.match = "exact" /\ r.status = "in_force"}

\* WHERE la.alias LIKE ? AND l.status = '有效' (an equal alias matches too)
LikeRows(T) ==
    {r \in T : r.match \in {"exact", "substring"} /\ r.status = "in_force"}

\* ORDER BY confidence DESC, l.publish_date DESC LIMIT 1: the rows that can
\* be first
FirstRows(S) ==
    {r \in S : \A o \in S :
        \/ o.confidence < r.confidence
        \/ o.confidence = r.confidence /\ o.publish_date <= r.publish_date}

\* the substring match keeps the confidence of its row
Adjusted_Unscaled(c) == c

\* la.confidence * 0.9 as adjusted_conf
Adjusted(c) == (c * 9) \div 10

\* the rows the call can return: the first exact row if there is one (line
\* 136), otherwise the first LIKE row with the adjusted confidence, or None
AliasResults(T) ==
    IF ExactRows(T) # {}
    THEN {ResultRow(r.law, r.confidence) : r \in FirstRows(ExactRows(T))}
    ELSE IF LikeRows(T) # {}
    THEN {ResultRow(r.law, Adjusted(r.confidence)) :
             r \in FirstRows(LikeRows(T))}
    ELSE {NoRow}

\* resolve_law_alias_cached(query) returns
ResolveLawAlias ==
    /\ apc = "idle"
    /\ alias_result' \in AliasResults(alias_rows)
    /\ apc' = "returned"
    /\ UNCHANGED <<alias_rows, otherThanAlias>>

\* a query raises: except Exception: logger.warning(...); return None
ResolveLawAliasFail ==
    /\ apc = "idle"
    /\ alias_result' = NoRow
    /\ apc' = "failed"
    /\ UNCHANGED <<alias_rows, otherThanAlias>>

AliasNext == ResolveLawAlias \/ ResolveLawAliasFail

(***************************************************************************)
(* cn2an_convert (article_splitter.py, lines 17-51).  A text is a sequence *)
(* of characters; the Chinese numerals are written by their names: "ling"  *)
(* 零, "yi" 一, "er" 二, "san" 三, "si" 四, "wu" 五, "liu" 六, "qi" 七,    *)
(* "ba" 八, "jiu" 九, "shi" 十, "bai" 百, "qian" 千, "wan" 万.             *)
(***************************************************************************)
\* the import of the cn2an library succeeded, or the built-in definition
Builds == {"cn2an", "builtin"}
Forms == {"chinese", "arabic"}

CnDigits == <<"ling", "yi", "er", "san", "si", "wu", "liu", "qi", "ba", "jiu">>
ArabicDigits == <<"0", "1", "2", "3", "4", "5", "6", "7", "8", "9">>
NoValue == -1

\* d.get(ch) of the built-in definition (lines 32-36, 40)
DGet(ch) ==
    CASE ch = "ling" -> 0 [] ch = "yi" -> 1 [] ch = "er" -> 2
      [] ch = "san" -> 3 [] ch = "si" -> 4 [] ch = "wu" -> 5
      [] ch = "liu" -> 6 [] ch = "qi" -> 7 [] ch = "ba" -> 8
      [] ch = "jiu" -> 9 [] ch = "shi" -> 10 [] ch = "bai" -> 100
      [] ch = "qian" -> 1000 [] ch = "wan" -> 10000
      [] OTHER -> NoValue

\* the loop of the built-in definition over text[i..] (lines 37-50)
RECURSIVE BuiltinLoop(_, _, _, _)
BuiltinLoop(text, i, result, current) ==
    IF i > Len(text) THEN result + current
    ELSE LET v == DGet(text[i]) IN
         IF v = NoValue THEN BuiltinLoop(text, i + 1, result, current)
         ELSE IF v >= 10
         THEN BuiltinLoop(text, i + 1,
                          result + (IF current = 0 THEN 1 ELSE current) * v, 0)
         ELSE BuiltinLoop(text, i + 1, result, v)

BuiltinConvert(text) == BuiltinLoop(text, 1, 0, 0)

\* the value of a digit string
IsArabic(text) ==
    \A i \in 1..Len(text) : \E d \in 1..10 : text[i] = ArabicDigits[d]
ArabicValue(ch) == (CHOOSE d \in 1..10 : ArabicDigits[d] = ch) - 1
RECURSIVE DecimalValue(_, _, _)
DecimalValue(text, i, acc) ==
    IF i > Len(text) THEN acc
    ELSE DecimalValue(text, i + 1, acc * 10 + ArabicValue(text[i]))

\* _cn2an_lib.cn2an(text, "smart") (line 24): the library is imported, not
\* part of the repository; in smart mode it returns the number a digit
\* string denotes and the number a Chinese numeral denotes
LibraryConvert(text) ==
    IF IsArabic(text) THEN DecimalValue(text, 1, 0) ELSE BuiltinConvert(text)

\* the Chinese numeral of n: each non-zero digit with its unit, one 零 for
\* a run of skipped places that is followed by a digit, and 十 without 一
\* in front for 10-19
Pow10(p) == CASE p = 0 -> 1 [] p = 1 -> 10 [] p = 2 -> 100
              [] p = 3 -> 1000 [] OTHER -> 10000
UnitOf(p) == CASE p = 1 -> "shi" [] p = 2 -> "bai" [] p = 3 -> "qian"
               [] OTHER -> "wan"
DigitUnit(d, p, started) ==
    IF p = 0 THEN <<CnDigits[d + 1]>>
    ELSE IF p = 1 /\ d = 1 /\ ~started THEN <<"shi">>
    ELSE <<CnDigits[d + 1], UnitOf(p)>>
RECURSIVE Render(_, _, _, _)
Render(n, p, started, gap) ==
    IF p < 0 THEN <<>>
    ELSE LET d == n \div Pow10(p)
             rest == n % Pow10(p)
         IN IF d = 0 THEN Render(rest, p - 1, started, started)
            ELSE (IF gap THEN <<"ling">> ELSE <<>>)
                     \o DigitUnit(d, p, started)
                     \o Render(rest, p - 1, TRUE, FALSE)
ToCn(n) == Render(n, 4, FALSE, FALSE)

\* str(n)
RECURSIVE ToArabic(_)
ToArabic(n) ==
    IF n < 10 THEN <<ArabicDigits[n + 1]>>
    ELSE ToArabic(n \div 10) \o <<ArabicDigits[(n % 10) + 1]>>

\* the text cn2an_convert is applied to
NumeralText == IF cn_form = "chinese" THEN ToCn(cn_n) ELSE ToArabic(cn_n)

\* cn2an_convert as defined when the import succeeds (lines 21-26)
ConvertLibrary ==
    /\ cpc = "idle"
    /\ cn_build = "cn2an"
    /\ cn_value' = LibraryConvert(NumeralText)
    /\ cpc' = "returned"
    /\ UNCHANGED <<cn_build, cn_n, cn_form, otherThanNumeral>>

\* cn2an_convert as defined on ImportError (lines 30-51)
ConvertBuiltin ==
    /\ cpc = "idle"
    /\ cn_build = "builtin"
    /\ cn_value' = BuiltinConvert(NumeralText)
    /\ cpc' = "returned"
    /\ UNCHANGED <<cn_build, cn_n, cn_form, otherThanNumeral>>

NumeralNext == ConvertLibrary \/ ConvertBuiltin

(***************************************************************************)
(* ArticleSplitter.split_law (article_splitter.py, lines 95-206).  A text  *)
(* is the sequence of its lines; a line is given by what its stripped form *)
(* is or matches: "blank" (empty), "bian" (BIAN_PATTERN), "fenbian"        *)
(* (FENBIAN_PATTERN), "zhang" (ZHANG_PATTERN), "jie" (JIE_PATTERN),        *)
(* "opener" (ARTICLE_PATTERN), or "text" (any other line).  A line is      *)
(* named by its number in the text, so that a hierarchy line kept in       *)
(* current_bian etc., a line of current_lines, and the parts of a          *)
(* chapter_path are line numbers; 0 is the empty string.                   *)
(***************************************************************************)
LineKinds == {"blank", "bian", "fenbian", "zhang", "jie", "opener", "text"}
Texts == UNION {[1..n -> LineKinds] : n \in 0..MaxLines}

\* "\n".join(current_lines).strip(): blank lines at either end are dropped
RECURSIVE StripLines(_)
StripLines(q) ==
    IF q = <<>> THEN <<>>
    ELSE IF lines[q[Len(q)]] = "blank" THEN StripLines(SubSeq(q, 1, Len(q) - 1))
    ELSE IF lines[q[1]] = "blank" THEN StripLines(Tail(q))
    ELSE q

\* the articles after flush() (lines 128-140)
Flushed ==
    IF collecting /\ current_lines # <<>> /\ StripLines(current_lines) # <<>>
    THEN Append(articles, [article_number_int |-> current_num_int,
                           article_number_str |-> current_num_str,
                           chapter_path |-> current_chapter_path,
                           content |-> StripLines(current_lines)])
    ELSE articles

\* parts = [p for p in [...] if p]; " > ".join(parts) (lines 190-191)
IsPart(p) == p # 0
ChapterPath == SelectSeq(<<current_bian, current_fenbian, current_zhang,
                           current_jie>>, IsPart)

AtLine(k) ==
    /\ ~split_returned
    /\ line_no <= Len(lines)
    /\ lines[line_no] = k
    /\ line_no' = line_no + 1
    /\ UNCHANGED <<lines, split_returned, otherThanSplit>>

\* if not content: return [] (lines 109-110)
SplitEmpty ==
    /\ ~split_returned
    /\ lines = <<>>
    /\ split_returned' = TRUE
    /\ UNCHANGED <<lines, line_no, hierarchyVars, collectVars, otherThanSplit>>
    /\ UNCHANGED numberVars

\* if not stripped (lines 144-148)
SplitBlank ==
    /\ AtLine("blank")
    /\ current_lines' = IF collecting THEN Append(current_lines, line_no)
                        ELSE current_lines
    /\ UNCHANGED <<hierarchyVars, current_chapter_path, collecting, articles>>
    /\ UNCHANGED numberVars

\* a Book line keeps the levels below it
SplitBian_NoReset ==
    /\ AtLine("bian")
    /\ current_bian' = line_no
    /\ UNCHANGED <<current_fenbian, current_zhang, current_jie, collectVars>>
    /\ UNCHANGED numberVars

\* BIAN_PATTERN matches (lines 152-160)
SplitBian ==
    /\ AtLine("bian")
    /\ current_bian' = line_no
    /\ current_fenbian' = 0
    /\ current_zhang' = 0
    /\ current_jie' = 0
    /\ UNCHANGED collectVars
    /\ UNCHANGED numberVars

\* FENBIAN_PATTERN matches (lines 162-166)
SplitFenbian ==
    /\ AtLine("fenbian")
    /\ current_fenbian' = line_no
    /\ current_zhang' = 0
    /\ current_jie' = 0
    /\ UNCHANGED <<current_bian, collectVars>>
    /\ UNCHANGED numberVars

\* ZHANG_PATTERN matches (lines 168-171)
SplitZhang ==
    /\ AtLine("zhang")
    /\ current_zhang' = line_no
    /\ current_jie' = 0
    /\ UNCHANGED <<current_bian, current_fenbian, collectVars>>
    /\ UNCHANGED numberVars

\* JIE_PATTERN matches (lines 173-175)
SplitJie ==
    /\ AtLine("jie")
    /\ current_jie' = line_no
    /\ UNCHANGED <<current_bian, current_fenbian, current_zhang, collectVars>>
    /\ UNCHANGED numberVars

\* a number as str(num_int) writes it, and the raw token of an opener
NumStr(n) == [form |-> "str", of |-> n]
RawToken(line) == [form |-> "raw", of |-> line]
NoNumStr == [form |-> "empty", of |-> 0]

\* what _parse_article_number does with the numeral of the opener (lines
\* 70-93): it returns the number (the line number stands for it) and its
\* str; the codec fails on the numeral, cn2an_convert returns 0 (lines
\* 23-26) and the str is that of 0; or it raises
ParseOutcomes == {"parsed", "zero", "raised"}

\* current_num_int, current_num_str after the try block (lines 184-188)
Numbered(outcome) ==
    /\ current_num_int' = IF outcome = "parsed" THEN line_no ELSE 0
    /\ current_num_str' =
          IF outcome = "parsed" THEN NumStr(line_no)
          ELSE IF outcome = "zero" THEN NumStr(0)
          ELSE RawToken(line_no)
    /\ unparsed' = IF outcome = "parsed" THEN unparsed
                   ELSE unparsed \cup {line_no}

\* an opener is added to the article in progress
SplitOpener_NoFlush ==
    /\ AtLine("opener")
    /\ \E outcome \in ParseOutcomes : Numbered(outcome)
    /\ current_lines' = IF collecting THEN Append(current_lines, line_no)
                        ELSE <<line_no>>
    /\ current_chapter_path' = IF collecting THEN current_chapter_path
                               ELSE ChapterPath
    /\ collecting' = TRUE
    /\ UNCHANGED <<hierarchyVars, articles>>

\* ARTICLE_PATTERN matches (lines 178-194)
SplitOpener ==
    /\ AtLine("opener")
    /\ \E outcome \in ParseOutcomes : Numbered(outcome)
    /\ articles' = Flushed
    /\ current_chapter_path' = ChapterPath
    /\ current_lines' = <<line_no>>
    /\ collecting' = TRUE
    /\ UNCHANGED hierarchyVars

\* any other line (lines 195-198)
SplitText ==
    /\ AtLine("text")
    /\ current_lines' = IF collecting THEN Append(current_lines, line_no)
                        ELSE current_lines
    /\ UNCHANGED <<hierarchyVars, current_chapter_path, collecting, articles>>
    /\ UNCHANGED numberVars

\* after the last line: flush(); return articles (lines 200-203)
SplitReturn ==
    /\ ~split_returned
    /\ lines # <<>>
    /\ line_no > Len(lines)
    /\ articles' = Flushed
    /\ collecting' = FALSE
    /\ split_returned' = TRUE
    /\ UNCHANGED <<lines, line_no, hierarchyVars, current_chapter_path,
                   current_lines, otherThanSplit>>
    /\ UNCHANGED numberVars

SplitLaw ==
    \/ SplitEmpty
    \/ SplitBlank
    \/ SplitBian
    \/ SplitFenbian
    \/ SplitZhang
    \/ SplitJie
    \/ SplitOpener
    \/ SplitText
    \/ SplitReturn

(***************************************************************************)
(* The boost factor of a row in VectorIndex._load (vector_db.py, lines     *)
(* 146-160), in thousandths.                                               *)
(***************************************************************************)
\* factor = 1.0
One == 1000
\* factor *= 1.15, factor *= 0.5, factor *= 0.1
TimesCore(f) == (f * 115) \div 100
TimesHalf(f) == (f * 5) \div 10
TimesTenth(f) == f \div 10

\* if any(core in title for core in CORE_LAWS): factor *= 1.15
AfterCore(f) == IF title_core THEN TimesCore(f) ELSE f

\* if length < 50: factor *= 0.5 elif length < 20: factor *= 0.1
AfterLength(f) ==
    IF length < 50 THEN TimesHalf(f)
    ELSE IF length < 20 THEN TimesTenth(f)
    ELSE f

\* the factor appended to boosts for the row
BoostFactor ==
    /\ bpc = "idle"
    /\ factor' = AfterLength(AfterCore(One))
    /\ bpc' = "appended"
    /\ UNCHANGED <<title_core, length, otherThanBoost>>

(***************************************************************************)
(* The RRF merge of search_article_content (lines 1091-1115).  A row is    *)
(* given by its key f"{row[3]}_{row[0]}".  Scores are exact: a weight is   *)
(* in tenths and every score is multiplied by RrfScale, the product of the *)
(* denominators K + rank + 1 that can occur.                               *)
(***************************************************************************)
K == 60
ConceptWeight == 20
FtsWeight == 10
VecWeight == 8
MergeKeys == {"a1", "a2", "b1"}
ResultLists == UNION {[1..n -> MergeKeys] : n \in 0..MaxList}

RECURSIVE DenominatorsUpTo(_)
DenominatorsUpTo(n) == IF n = 0 THEN 1 ELSE (K + n) * DenominatorsUpTo(n - 1)
RrfScale == DenominatorsUpTo(MaxList)

\* rrf = weight / (K + rank + 1), rank counted from 0
Rrf(weight, rank) == (weight * RrfScale) \div (K + rank + 1)

NoScores == [k \in MergeKeys |-> 0]

\* merge_list(lst, weight) from position i on: every row adds its rrf to
\* the score of its key; a key enters the dict at its first row
RECURSIVE MergeList(_, _, _, _)
MergeList(lst, weight, i, acc) ==
    IF i > Len(lst) THEN acc
    ELSE LET key == lst[i]
             known == \E j \in 1..Len(acc.keys) : acc.keys[j] = key
         IN MergeList(lst, weight, i + 1,
                [scores |-> [acc.scores EXCEPT ![key] = @ + Rrf(weight, i - 1)],
                 keys |-> IF known THEN acc.keys ELSE Append(acc.keys, key)])

Merged(lst, weight) ==
    MergeList(lst, weight, 1, [scores |-> scores, keys |-> score_keys])

\* the keys in the order of the dict
SortedKeys_Unsorted(keys, sc) == keys

\* sorted(keys, key=lambda k: scores[k], reverse=True): a stable sort, keys
\* of equal score keep the order of the dict
RECURSIVE SortedKeys(_, _)
SortedKeys(keys, sc) ==
    IF keys = <<>> THEN <<>>
    ELSE LET first == CHOOSE i \in 1..Len(keys) :
                 /\ \A j \in 1..Len(keys) : sc[keys[j]] <= sc[keys[i]]
                 /\ \A j \in 1..(i - 1) : sc[keys[j]] < sc[keys[i]]
         IN <<keys[first]>> \o
                SortedKeys(SubSeq(keys, 1, first - 1) \o
                           SubSeq(keys, first + 1, Len(keys)), sc)

\* if not (concept_results or fts_results or vec_results): return (line
\* 1092)
MergeNothing ==
    /\ mpc = "start"
    /\ concept_results = <<>> /\ fts_results = <<>> /\ vec_results = <<>>
    /\ mpc' = "not_found"
    /\ UNCHANGED <<concept_results, fts_results, vec_results, merge_limit,
                   scores, score_keys, final_keys, otherThanMerge>>

MergeStep(from, to, lst, weight) ==
    /\ mpc = from
    /\ scores' = Merged(lst, weight).scores
    /\ score_keys' = Merged(lst, weight).keys
    /\ mpc' = to
    /\ UNCHANGED <<concept_results, fts_results, vec_results, merge_limit,
                   final_keys, otherThanMerge>>

\* merge_list(concept_results, 2.0)
MergeConcept ==
    /\ concept_results # <<>> \/ fts_results # <<>> \/ vec_results # <<>>
    /\ MergeStep("start", "concept", concept_results, ConceptWeight)

\* merge_list(fts_results, 1.0)
MergeFts ==
    /\ mpc = "concept"
    /\ MergeStep("concept", "fts", fts_results, FtsWeight)

\* merge_list(vec_results, 0.8)
MergeVec ==
    /\ mpc = "fts"
    /\ MergeStep("fts", "vec", vec_results, VecWeight)

\* sorted_keys = sorted(...); final_rows = ... sorted_keys[:limit]
MergeSort ==
    /\ mpc = "vec"
    /\ final_keys' = SubSeq(SortedKeys(score_keys, scores), 1,
                            Min(merge_limit, Len(score_keys)))
    /\ mpc' = "sorted"
    /\ UNCHANGED <<concept_results, fts_results, vec_results, merge_limit,
                   scores, score_keys, otherThanMerge>>

RrfMerge ==
    \/ MergeNothing
    \/ MergeConcept
    \/ MergeFts
    \/ MergeVec
    \/ MergeSort

(***************************************************************************)
(* The article FTS ladder of search_article_content (lines 929-1033).      *)
(* The rows of a query are a set of article ids; a query that raises       *)
(* leaves fts_results as it was.                                           *)
(***************************************************************************)
ArticleIds == {1, 2}

\* the first query of Strategy B (lines 961, 987)
StrategyB == "and_synonyms"

\* the position after a query of the ladder returned res
AfterRung(rung, res) ==
    IF res # {} \/ rung = "like" THEN "done"
    ELSE IF rung = "direct" THEN StrategyB
    ELSE IF rung = "and_synonyms"
    THEN (IF several_tokens THEN "and" ELSE "or")
    ELSE IF rung = "and" THEN "or"
    ELSE IF long_token THEN "like" ELSE "done"

\* cursor.execute(...); fetchall() of the query at position rung
RungReturns(rung) ==
    /\ kpc = rung
    /\ \E res \in SUBSET ArticleIds :
          /\ ladder_results' = res
          /\ ran' = Append(ran, [rung |-> rung, rows |-> res,
                                 raised |-> FALSE])
          /\ kpc' = AfterRung(rung, res)
    /\ UNCHANGED <<expanded_or, several_tokens, long_token, otherThanLadder>>

\* the query at position rung raises: except Exception, logged
RungRaises(rung) ==
    /\ kpc = rung
    /\ ran' = Append(ran, [rung |-> rung, rows |-> {}, raised |-> TRUE])
    /\ kpc' = AfterRung(rung, {})
    /\ UNCHANGED <<expanded_or, several_tokens, long_token, ladder_results,
                   otherThanLadder>>

\* expanded_keywords = expand_query(keywords); Strategy A is taken if it
\* differs from keywords and holds " OR " (lines 932-937)
LadderStart ==
    /\ kpc = "start"
    /\ kpc' = IF expanded_or THEN "direct" ELSE StrategyB
    /\ UNCHANGED <<expanded_or, several_tokens, long_token, ladder_results,
                   ran, otherThanLadder>>

\* Strategy A: the expanded query itself (lines 938-958)
DirectFts == kpc = "direct" /\ RungReturns("direct")
DirectFtsFail == kpc = "direct" /\ RungRaises("direct")

\* B1: AND with synonyms (lines 987, 999-1004)
AndSynonyms == kpc = "and_synonyms" /\ RungReturns("and_synonyms")
AndSynonymsFail == kpc = "and_synonyms" /\ RungRaises("and_synonyms")

\* B2: AND without synonyms, if len(tokens) > 1 (lines 990-991)
AndPlain == kpc = "and" /\ RungReturns("and")
AndPlainFail == kpc = "and" /\ RungRaises("and")

\* B3: OR of the synonym-expanded tokens (lines 994-997)
OrExpanded == kpc = "or" /\ RungReturns("or")
OrExpandedFail == kpc = "or" /\ RungRaises("or")

\* D: the LIKE fallback (lines 1010-1033)
LikeFallback == kpc = "like" /\ RungReturns("like")
LikeFallbackFail == kpc = "like" /\ RungRaises("like")

ArticleLadder ==
    \/ LadderStart
    \/ DirectFts \/ DirectFtsFail
    \/ AndSynonyms \/ AndSynonymsFail
    \/ AndPlain \/ AndPlainFail
    \/ OrExpanded \/ OrExpandedFail
    \/ LikeFallback \/ LikeFallbackFail

(***************************************************************************)
(* resolve_concept_cached (lines 164-243).  A candidate is the phrase of   *)
(* len tokens of the query that begins at token start; the rows of a       *)
(* lookup are given by their number.                                       *)
(***************************************************************************)
FuzzyLimit == 10
NotReturned == -1

Phrase(start, len) == [start |-> start, len |-> len]

\* for start in range(len(tokens) - size + 1): candidates.append(sub)
RECURSIVE PhrasesOfLength(_, _, _)
PhrasesOfLength(n, size, start) ==
    IF start > n - size + 1 THEN <<>>
    ELSE <<Phrase(start, size)>> \o PhrasesOfLength(n, size, start + 1)

\* for length in range(len(tokens) - 1, 0, -1) (lines 179-183)
RECURSIVE SubPhrases(_, _)
SubPhrases(n, size) ==
    IF size < 1 THEN <<>>
    ELSE PhrasesOfLength(n, size, 1) \o SubPhrases(n, size - 1)

\* candidates (lines 175-187): the query, then the sub-phrases; the single
\* tokens are among them already (length 1), so the last loop adds none
Candidates(n) ==
    IF n > 1 THEN <<Phrase(1, n)>> \o SubPhrases(n, n - 1) ELSE <<Phrase(1, n)>>

\* the position after the lookups of a candidate
NextCandidate == IF cand_no < Len(Candidates(num_tokens)) THEN "exact"
                 ELSE "fuzzy"

Looked(what, got, raised) ==
    Append(lookups, [cand |-> cand_no, kind |-> what, rows |-> got,
                     raised |-> raised])

\* the exact topic lookup of the candidate (lines 192-201)
ConceptExact ==
    /\ qpc = "exact"
    /\ \E got \in 0..MaxRows :
          /\ results_len' = got
          /\ lookups' = Looked("exact", got, FALSE)
          /\ IF got > 0
             THEN qpc' = "returned" /\ concept_return' = got
             ELSE qpc' = "synonyms" /\ UNCHANGED concept_return
    /\ UNCHANGED <<num_tokens, cand_no, syn_left, syn_rows, otherThanConcept>>

\* the exact lookup raises (lines 202-203): results keeps its value
ConceptExactFail ==
    /\ qpc = "exact"
    /\ lookups' = Looked("exact", 0, TRUE)
    /\ qpc' = "synonyms"
    /\ UNCHANGED <<num_tokens, cand_no, results_len, syn_left, syn_rows,
                   concept_return, otherThanConcept>>

\* SELECT canonical_term ... WHERE term = ? (lines 207-210)
ConceptSynonyms ==
    /\ qpc = "synonyms"
    /\ syn_left' \in 0..MaxSynonyms
    /\ syn_rows' = 0
    /\ qpc' = "synonym_rows"
    /\ UNCHANGED <<num_tokens, cand_no, results_len, lookups, concept_return,
                   otherThanConcept>>

\* a query of the synonym expansion raises (lines 224-225): the rows added
\* to results so far stay there
ConceptSynonymsFail ==
    /\ \/ qpc = "synonyms" /\ syn_rows' = 0
       \/ qpc = "synonym_rows" /\ syn_left > 0 /\ UNCHANGED syn_rows
    /\ lookups' = Looked("synonym", syn_rows', TRUE)
    /\ qpc' = NextCandidate
    /\ cand_no' = IF NextCandidate = "exact" THEN cand_no + 1 ELSE cand_no
    /\ UNCHANGED <<num_tokens, results_len, syn_left, concept_return,
                   otherThanConcept>>

\* results.extend(cursor.fetchall()) for the next synonym (lines 212-219)
ConceptSynonymRows ==
    /\ qpc = "synonym_rows"
    /\ syn_left > 0
    /\ \E got \in 0..MaxRows :
          /\ results_len' = results_len + got
          /\ syn_rows' = syn_rows + got
    /\ syn_left' = syn_left - 1
    /\ UNCHANGED <<num_tokens, cand_no, qpc, lookups, concept_return,
                   otherThanConcept>>

\* if results: return tuple(results) (lines 221-222), else the next
\* candidate or the fuzzy match
ConceptSynonymsDone ==
    /\ qpc = "synonym_rows"
    /\ syn_left = 0
    /\ lookups' = Looked("synonym", syn_rows, FALSE)
    /\ IF results_len > 0
       THEN /\ qpc' = "returned"
            /\ concept_return' = results_len
            /\ UNCHANGED cand_no
       ELSE /\ qpc' = NextCandidate
            /\ cand_no' = IF NextCandidate = "exact" THEN cand_no + 1
                          ELSE cand_no
            /\ UNCHANGED concept_return
    /\ UNCHANGED <<num_tokens, results_len, syn_left, syn_rows,
                   otherThanConcept>>

\* the fuzzy match, LIMIT 10, of matched topics (lines 228-239); return ()
\* (line 243) is a return of no rows
ConceptFuzzy ==
    /\ qpc = "fuzzy"
    /\ \E matched \in 0..(FuzzyLimit + 1) :
          /\ results_len' = Min(matched, FuzzyLimit)
          /\ lookups' = Looked("fuzzy", Min(matched, FuzzyLimit), FALSE)
          /\ concept_return' = Min(matched, FuzzyLimit)
    /\ qpc' = "returned"
    /\ UNCHANGED <<num_tokens, cand_no, syn_left, syn_rows, otherThanConcept>>

\* the fuzzy match raises (lines 240-241): return ()
ConceptFuzzyFail ==
    /\ qpc = "fuzzy"
    /\ lookups' = Looked("fuzzy", 0, TRUE)
    /\ concept_return' = 0
    /\ qpc' = "returned"
    /\ UNCHANGED <<num_tokens, cand_no, results_len, syn_left, syn_rows,
                   otherThanConcept>>

ResolveConcept ==
    \/ ConceptExact
    \/ ConceptExactFail
    \/ ConceptSynonyms
    \/ ConceptSynonymsFail
    \/ ConceptSynonymRows
    \/ ConceptSynonymsDone
    \/ ConceptFuzzy
    \/ ConceptFuzzyFail

(***************************************************************************)
(* _get_sibling_articles (lines 666-701) for the articles of one law; the  *)
(* result is given by the article numbers it lists.  A chapter_path is     *)
(* "" (empty) or "P".                                                      *)
(***************************************************************************)
SiblingLimit == 10
ArticleNos == 1..MaxArticleNo
ChapterPaths == {"", "P"}

Distance(n, t) == IF n < t THEN t - n ELSE n - t

\* WHERE law_id = ? AND chapter_path = ? AND article_number_int != ? (lines
\* 680-686)
SiblingRows ==
    {n \in ArticleNos : path_of[n] = path_of[target_int] /\ n # target_int}

\* S in ascending order (ORDER BY article_number_int; sorted by x[0])
RECURSIVE Ascending(_)
Ascending(S) ==
    IF S = {} THEN <<>>
    ELSE LET least == CHOOSE n \in S : \A m \in S : n <= m
         IN <<least>> \o Ascending(S \ {least})

\* the rows in ascending order, as fetched
NearestFirst_ByNumber(S, t) == Ascending(S)

\* siblings.sort(key=lambda x: abs(x[0] - article_int)) on the rows in
\* ascending order: a stable sort, so of two rows at the same distance the
\* lower number comes first
RECURSIVE NearestFirst(_, _)
NearestFirst(S, t) ==
    IF S = {} THEN <<>>
    ELSE LET first == CHOOSE n \in S : \A m \in S :
                 \/ Distance(n, t) < Distance(m, t)
                 \/ Distance(n, t) = Distance(m, t) /\ n <= m
         IN <<first>> \o NearestFirst(S \ {first}, t)

\* nearest = sorted(siblings[:10], key=lambda x: x[0])
Nearest(S, t) ==
    LET sorted == NearestFirst(S, t)
        cut == IF Len(sorted) < SiblingLimit THEN Len(sorted)
               ELSE SiblingLimit
    IN Ascending({sorted[i] : i \in 1..cut})

\* the call returns: "" if the article has no chapter_path or no sibling
\* (lines 675-676, 689-690), otherwise the list
GetSiblings ==
    /\ gpc = "called"
    /\ sibling_list' = IF path_of[target_int] = "" THEN <<>>
                       ELSE Nearest(SiblingRows, target_int)
    /\ gpc' = "returned"
    /\ UNCHANGED <<path_of, target_int, otherThanSibling>>

\* a query raises: except Exception, return "" (lines 698-700)
GetSiblingsFail ==
    /\ gpc = "called"
    /\ sibling_list' = <<>>
    /\ gpc' = "failed"
    /\ UNCHANGED <<path_of, target_int, otherThanSibling>>

SiblingArticles == GetSiblings \/ GetSiblingsFail

(***************************************************************************)
(* The lru_cache-decorated functions (lines 121-160, 164-243) called for   *)
(* one key by two threads, beside updates and failures of the store and    *)
(* clear_caches (lines 1283-1290).  A value is the version of the row the  *)
(* function read; the row exists in every version, so None and () arise    *)
(* from a store error only.  lru_cache looks the key up, calls the         *)
(* function on a miss without holding its lock, and then stores the        *)
(* result under the key; a call that raises stores nothing.                *)
(***************************************************************************)
CacheFns == {"resolve_law_alias_cached", "get_law_by_id_cached",
             "resolve_concept_cached"}
Callers == {1, 2}
\* None of resolve_law_alias_cached (line 149) and () of
\* resolve_concept_cached after the except branches
ErrorOutcome == 0
NoCall == [pc |-> "idle", val |-> ErrorOutcome, hit |-> FALSE]

\* the store is updated
StoreUpdate ==
    /\ kv_version < MaxVersion
    /\ kv_version' = kv_version + 1
    /\ UNCHANGED <<cache_fn, kv_ok, lru, calls, clr_pc, clr_seen,
                   clear_floor, otherThanLru>>

\* the store starts to fail
StoreBreak ==
    /\ kv_ok
    /\ kv_ok' = FALSE
    /\ UNCHANGED <<cache_fn, kv_version, lru, calls, clr_pc, clr_seen,
                   clear_floor, otherThanLru>>

\* the store recovers
StoreRecover ==
    /\ ~kv_ok
    /\ kv_ok' = TRUE
    /\ UNCHANGED <<cache_fn, kv_version, lru, calls, clr_pc, clr_seen,
                   clear_floor, otherThanLru>>

Between(c) == calls[c].pc \in {"idle", "returned", "raised"}

\* the key is in the cache: the call returns the entry
CachedHit(c) ==
    /\ Between(c)
    /\ lru # <<>>
    /\ calls' = [calls EXCEPT ![c] =
                     [pc |-> "returned", val |-> lru[1], hit |-> TRUE]]
    /\ UNCHANGED <<cache_fn, kv_version, kv_ok, lru, clr_pc, clr_seen,
                   clear_floor, otherThanLru>>

\* the key is not in the cache: the function is called
CachedMiss(c) ==
    /\ Between(c)
    /\ lru = <<>>
    /\ calls' = [calls EXCEPT ![c] =
                     [pc |-> "called", val |-> ErrorOutcome, hit |-> FALSE]]
    /\ UNCHANGED <<cache_fn, kv_version, kv_ok, lru, clr_pc, clr_seen,
                   clear_floor, otherThanLru>>

\* the function reads the row
CachedRead(c) ==
    /\ calls[c].pc = "called"
    /\ kv_ok
    /\ calls' = [calls EXCEPT ![c].pc = "read", ![c].val = kv_version]
    /\ UNCHANGED <<cache_fn, kv_version, kv_ok, lru, clr_pc, clr_seen,
                   clear_floor, otherThanLru>>

\* the store raises: resolve_law_alias_cached returns None (lines 147-149)
\* and resolve_concept_cached () (its queries are in try/except), while
\* get_law_by_id_cached lets the exception through
CachedReadFail(c) ==
    /\ calls[c].pc = "called"
    /\ ~kv_ok
    /\ calls' = [calls EXCEPT
                     ![c].pc = IF cache_fn = "get_law_by_id_cached"
                               THEN "raised" ELSE "read",
                     ![c].val = ErrorOutcome]
    /\ UNCHANGED <<cache_fn, kv_version, kv_ok, lru, clr_pc, clr_seen,
                   clear_floor, otherThanLru>>

\* lru_cache keeps the result under the key unless another call has put
\* the key there meanwhile
Stored(entry, val) == IF entry # <<>> THEN entry ELSE <<val>>

\* the function has returned: lru_cache stores the result and returns it
CachedStore(c) ==
    /\ calls[c].pc = "read"
    /\ lru' = Stored(lru, calls[c].val)
    /\ calls' = [calls EXCEPT ![c].pc = "returned"]
    /\ UNCHANGED <<cache_fn, kv_version, kv_ok, clr_pc, clr_seen,
                   clear_floor, otherThanLru>>

\* clear_caches is called
LruClearCall ==
    /\ clr_pc = "idle"
    /\ clr_pc' = "resolve_law_alias_cached"
    /\ clr_seen' = kv_version
    /\ UNCHANGED <<cache_fn, kv_version, kv_ok, lru, calls, clear_floor,
                   otherThanLru>>

\* the next cache after the cache of fn in clear_caches (lines 1286-1288)
AfterClear(fn) ==
    CASE fn = "resolve_law_alias_cached" -> "get_law_by_id_cached"
      [] fn = "get_law_by_id_cached" -> "resolve_concept_cached"
      [] OTHER -> "clearing_done"

\* fn.cache_clear()
LruCacheClear ==
    /\ clr_pc \in CacheFns
    /\ lru' = IF clr_pc = cache_fn THEN <<>> ELSE lru
    /\ clr_pc' = AfterClear(clr_pc)
    /\ UNCHANGED <<cache_fn, kv_version, kv_ok, calls, clr_seen,
                   clear_floor, otherThanLru>>

\* clear_caches returns
LruClearReturn ==
    /\ clr_pc = "clearing_done"
    /\ clr_pc' = "idle"
    /\ clear_floor' = clr_seen
    /\ UNCHANGED <<cache_fn, kv_version, kv_ok, lru, calls, clr_seen,
                   otherThanLru>>

CachedCalls ==
    \/ StoreUpdate
    \/ StoreBreak
    \/ StoreRecover
    \/ \E c \in Callers : CachedHit(c)
    \/ \E c \in Callers : CachedMiss(c)
    \/ \E c \in Callers : CachedRead(c)
    \/ \E c \in Callers : CachedReadFail(c)
    \/ \E c \in Callers : CachedStore(c)
    \/ LruClearCall
    \/ LruCacheClear
    \/ LruClearReturn

(***************************************************************************)
(* The engine: import of mcp_server, then preload, requests, clear_caches  *)
(* and ingestion running concurrently.                                     *)
(***************************************************************************)
NoSeen == [ids |-> NoneArr, matrix |-> NoneArr, boost |-> NoneArr,
           ids2 |-> NoneArr]

\* the connection pool and the search_laws paths at rest
PoolIdle ==
    /\ pool_size = MaxPoolSize
    /\ connections = <<>>
    /\ next_conn = 1
    /\ closed = {}
    /\ spc = [s \in Scopes |-> "idle"]
    /\ sconn = [s \in Scopes |-> 0]

LawsIdle ==
    /\ lpc = "idle"
    /\ lfail = {}
    /\ lmulti = FALSE
    /\ llong = FALSE
    /\ lcategory = NoFilter
    /\ lstatus = "in_force"
    /\ llimit = 1
    /\ lalias = 0
    /\ lshown = FALSE
    /\ lconcept = {}
    /\ lconceptshown = {}
    /\ lresults = {}
    /\ lfallback = {}
    /\ lvecrun = FALSE
    /\ lvector = <<>>
    /\ lpayload = NoPayload

\* no call of resolve_law_alias_cached is in progress
AliasIdle ==
    /\ alias_rows = {}
    /\ apc = "idle"
    /\ alias_result = NoRow

\* no call of cn2an_convert is in progress
NumeralIdle ==
    /\ cn_build = "builtin"
    /\ cn_n = 0
    /\ cn_form = "chinese"
    /\ cpc = "idle"
    /\ cn_value = 0

\* no call of split_law is in progress
SplitIdle ==
    /\ lines = <<>>
    /\ line_no = 1
    /\ current_bian = 0
    /\ current_fenbian = 0
    /\ current_zhang = 0
    /\ current_jie = 0
    /\ current_chapter_path = <<>>
    /\ current_lines = <<>>
    /\ collecting = FALSE
    /\ articles = <<>>
    /\ split_returned = FALSE
    /\ current_num_int = 0
    /\ current_num_str = NoNumStr
    /\ unparsed = {}

\* no boost factor is being computed
BoostIdle ==
    /\ title_core = FALSE
    /\ length = 0
    /\ bpc = "idle"
    /\ factor = One

\* no RRF merge is in progress
MergeIdle ==
    /\ concept_results = <<>>
    /\ fts_results = <<>>
    /\ vec_results = <<>>
    /\ merge_limit = 1
    /\ mpc = "start"
    /\ scores = NoScores
    /\ score_keys = <<>>
    /\ final_keys = <<>>

\* no article ladder is in progress
LadderIdle ==
    /\ expanded_or = FALSE
    /\ several_tokens = FALSE
    /\ long_token = FALSE
    /\ kpc = "start"
    /\ ladder_results = {}
    /\ ran = <<>>

\* no call of resolve_concept_cached is in progress
ConceptIdle ==
    /\ num_tokens = 1
    /\ cand_no = 1
    /\ qpc = "idle"
    /\ results_len = 0
    /\ syn_left = 0
    /\ syn_rows = 0
    /\ lookups = <<>>
    /\ concept_return = NotReturned

\* no call of _get_sibling_articles is in progress
SiblingIdle ==
    /\ path_of = [n \in ArticleNos |-> ""]
    /\ target_int = 1
    /\ gpc = "idle"
    /\ sibling_list = <<>>

\* no cached function is being followed
LruIdle ==
    /\ cache_fn = "resolve_law_alias_cached"
    /\ kv_version = 1
    /\ kv_ok = TRUE
    /\ lru = <<>>
    /\ calls = [c \in Callers |-> NoCall]
    /\ clr_pc = "idle"
    /\ clr_seen = 0
    /\ clear_floor = 0

UtilIdle ==
    /\ AliasIdle
    /\ NumeralIdle
    /\ SplitIdle
    /\ BoostIdle
    /\ MergeIdle
    /\ LadderIdle
    /\ ConceptIdle
    /\ SiblingIdle
    /\ LruIdle

RestIdleAlias ==
    /\ NumeralIdle
    /\ SplitIdle
    /\ BoostIdle
    /\ MergeIdle
    /\ LadderIdle
    /\ ConceptIdle
    /\ SiblingIdle
    /\ LruIdle

RestIdleNumeral ==
    /\ AliasIdle
    /\ SplitIdle
    /\ BoostIdle
    /\ MergeIdle
    /\ LadderIdle
    /\ ConceptIdle
    /\ SiblingIdle
    /\ LruIdle

RestIdleSplit ==
    /\ AliasIdle
    /\ NumeralIdle
    /\ BoostIdle
    /\ MergeIdle
    /\ LadderIdle
    /\ ConceptIdle
    /\ SiblingIdle
    /\ LruIdle

RestIdleBoost ==
    /\ AliasIdle
    /\ NumeralIdle
    /\ SplitIdle
    /\ MergeIdle
    /\ LadderIdle
    /\ ConceptIdle
    /\ SiblingIdle
    /\ LruIdle

RestIdleMerge ==
    /\ AliasIdle
    /\ NumeralIdle
    /\ SplitIdle
    /\ BoostIdle
    /\ LadderIdle
    /\ ConceptIdle
    /\ SiblingIdle
    /\ LruIdle

RestIdleLadder ==
    /\ AliasIdle
    /\ NumeralIdle
    /\ SplitIdle
    /\ BoostIdle
    /\ MergeIdle
    /\ ConceptIdle
    /\ SiblingIdle
    /\ LruIdle

RestIdleConcept ==
    /\ AliasIdle
    /\ NumeralIdle
    /\ SplitIdle
    /\ BoostIdle
    /\ MergeIdle
    /\ LadderIdle
    /\ SiblingIdle
    /\ LruIdle

RestIdleSibling ==
    /\ AliasIdle
    /\ NumeralIdle
    /\ SplitIdle
    /\ BoostIdle
    /\ MergeIdle
    /\ LadderIdle
    /\ ConceptIdle
    /\ LruIdle

RestIdleLru ==
    /\ AliasIdle
    /\ NumeralIdle
    /\ SplitIdle
    /\ BoostIdle
    /\ MergeIdle
    /\ LadderIdle
    /\ ConceptIdle
    /\ SiblingIdle

RequestsIdle ==
    /\ rpc = [r \in Requests |-> "idle"]
    /\ kind = [r \in Requests |-> "search_laws"]
    /\ nonvec = [r \in Requests |-> {}]
    /\ after_failed = [r \in Requests |-> FALSE]
    /\ waited = [r \in Requests |-> 0]
    /\ join_expired = [r \in Requests |-> FALSE]
    /\ holder = [r \in Requests |-> <<>>]
    /\ vec_hits = [r \in Requests |-> <<>>]
    /\ response = [r \in Requests |-> [rows |-> {}, vector |-> <<>>]]

CachesEmpty ==
    /\ alias_cache = {}
    /\ law_cache = {}
    /\ concept_cache = {}
    /\ cc_store = <<>>

\* the state when mcp_server has been imported: the index is constructed
\* lazily and unloaded, the preload thread has been started if vdb, and
\* otherwise the event has been set (line 70)
EngineInit ==
    /\ store_rows \in {<<>>, <<1>>}
    /\ loaded = FALSE
    /\ article_ids = NoneArr
    /\ matrix = NoneArr
    /\ boost_factors = NoneArr
    /\ lock = NoThread
    /\ load_count = 0
    /\ load_raised = 0
    /\ vdb \in BOOLEAN
    /\ vector_ready = ~vdb
    /\ preload_outcome = "pending"
    /\ pc = [t \in Threads |->
               IF t = PreloadT THEN (IF vdb THEN "preload_start" ELSE "absent")
               ELSE IF t = ClearT THEN "cc_idle"
               ELSE "idle"]
    /\ rows = [t \in Threads |-> <<>>]
    /\ seen = [t \in Threads |-> NoSeen]
    /\ RequestsIdle
    /\ CachesEmpty

Init ==
    /\ EngineInit
    /\ PoolIdle
    /\ LawsIdle
    /\ UtilIdle

\* preload, requests and their vector workers, over a store that is not
\* being changed
Next ==
    \/ Preload
    \/ \E r \in Requests : Request(r)
    \/ \E w \in Workers : Worker(w)

Spec == Init /\ [][Next]_vars

\* clear_caches and ingestion beside a request, from a state in which the
\* preload thread takes no further step: it has ended with the index loaded,
\* it has ended having failed, or it is still held up before its _load()
\* (line 56, the import inside the thread) with the event not yet set
AfterPreload ==
    /\ store_rows = <<>>
    /\ preload_outcome \in {"ok", "failed", "pending"}
    /\ loaded = (preload_outcome = "ok")
    /\ article_ids = IF loaded THEN Arr(store_rows) ELSE NoneArr
    /\ matrix = IF loaded THEN Arr(store_rows) ELSE NoneArr
    /\ boost_factors = IF loaded THEN Arr(store_rows) ELSE NoneArr
    /\ lock = NoThread
    /\ load_count = IF preload_outcome = "pending" THEN 0 ELSE 1
    /\ load_raised = IF preload_outcome = "failed" THEN 1 ELSE 0
    /\ vdb = TRUE
    /\ vector_ready = (preload_outcome # "pending")
    /\ pc = [t \in Threads |->
               IF t = PreloadT
               THEN (IF preload_outcome = "pending" THEN "preload_start"
                     ELSE "preload_done")
               ELSE IF t = ClearT THEN "cc_idle"
               ELSE "idle"]
    /\ rows = [t \in Threads |-> <<>>]
    /\ seen = [t \in Threads |-> NoSeen]
    /\ RequestsIdle
    /\ CachesEmpty

ReloadInit ==
    /\ AfterPreload
    /\ PoolIdle
    /\ LawsIdle
    /\ UtilIdle

ReloadNext ==
    \/ Ingest
    \/ \E r \in Requests : Request(r)
    \/ \E w \in Workers : Worker(w)
    \/ ClearCaches

ReloadSpec == ReloadInit /\ [][ReloadNext]_vars

\* the engine with the vector engine unavailable and nothing running
EngineQuiet ==
    /\ EngineInit
    /\ store_rows = <<>>
    /\ ~vdb

\* ConnectionPool.__init__: up to pool_size connections are opened; one whose
\* connect or PRAGMA raises is skipped (except: pass)
PoolInit ==
    /\ pool_size \in 1..MaxPoolSize
    /\ \E k \in 0..pool_size :
        /\ connections = [i \in 1..k |-> i]
        /\ next_conn = k + 1
    /\ closed = {}
    /\ spc = [s \in Scopes |-> "idle"]
    /\ sconn = [s \in Scopes |-> 0]

PoolSpecInit ==
    /\ EngineQuiet
    /\ PoolInit
    /\ LawsIdle
    /\ UtilIdle

\* concurrent get_connection scopes on one pool
PoolNext == \E s \in Scopes : Scope(s)

PoolSpec == PoolSpecInit /\ [][PoolNext]_vars

\* one call of search_laws, with or without the vector engine
LawsInit ==
    /\ EngineInit
    /\ store_rows = <<>>
    /\ PoolIdle
    /\ LawsIdle
    /\ UtilIdle

LawsSpec == LawsInit /\ [][SearchLaws]_vars

\* one call of resolve_law_alias_cached on any table of alias rows
AliasInit ==
    /\ EngineQuiet
    /\ PoolIdle
    /\ LawsIdle
    /\ RestIdleAlias
    /\ alias_rows \in AliasTables
    /\ apc = "idle"
    /\ alias_result = NoRow

AliasSpec == AliasInit /\ [][AliasNext]_vars

\* one call of cn2an_convert, in either build, on the Chinese numeral or
\* the digit string of a number
NumeralInit ==
    /\ EngineQuiet
    /\ PoolIdle
    /\ LawsIdle
    /\ RestIdleNumeral
    /\ cn_build \in Builds
    /\ cn_n \in 1..MaxN
    /\ cn_form \in Forms
    /\ cpc = "idle"
    /\ cn_value = 0

NumeralSpec == NumeralInit /\ [][NumeralNext]_vars

\* one call of split_law on any text of up to MaxLines lines (lines 109-126)
SplitInit ==
    /\ EngineQuiet
    /\ PoolIdle
    /\ LawsIdle
    /\ RestIdleSplit
    /\ lines \in Texts
    /\ line_no = 1
    /\ current_bian = 0
    /\ current_fenbian = 0
    /\ current_zhang = 0
    /\ current_jie = 0
    /\ current_chapter_path = <<>>
    /\ current_lines = <<>>
    /\ collecting = FALSE
    /\ articles = <<>>
    /\ split_returned = FALSE
    /\ current_num_int = 0
    /\ current_num_str = NoNumStr
    /\ unparsed = {}

SplitSpec == SplitInit /\ [][SplitLaw]_vars

\* the boost factor of one row of any title and length
BoostInit ==
    /\ EngineQuiet
    /\ PoolIdle
    /\ LawsIdle
    /\ RestIdleBoost
    /\ title_core \in BOOLEAN
    /\ length \in 0..MaxLength
    /\ bpc = "idle"
    /\ factor = One

BoostSpec == BoostInit /\ [][BoostFactor]_vars

\* one RRF merge of any three result lists
MergeInit ==
    /\ EngineQuiet
    /\ PoolIdle
    /\ LawsIdle
    /\ RestIdleMerge
    /\ concept_results \in ResultLists
    /\ fts_results \in ResultLists
    /\ vec_results \in ResultLists
    /\ merge_limit \in 1..MaxOut
    /\ mpc = "start"
    /\ scores = NoScores
    /\ score_keys = <<>>
    /\ final_keys = <<>>

MergeSpec == MergeInit /\ [][RrfMerge]_vars

\* one run of the article ladder for any keywords
LadderInit ==
    /\ EngineQuiet
    /\ PoolIdle
    /\ LawsIdle
    /\ RestIdleLadder
    /\ expanded_or \in BOOLEAN
    /\ several_tokens \in BOOLEAN
    /\ long_token \in BOOLEAN
    /\ kpc = "start"
    /\ ladder_results = {}
    /\ ran = <<>>

LadderSpec == LadderInit /\ [][ArticleLadder]_vars

\* one call of resolve_concept_cached on a query of any number of tokens
ConceptInit ==
    /\ EngineQuiet
    /\ PoolIdle
    /\ LawsIdle
    /\ RestIdleConcept
    /\ num_tokens \in 1..MaxTokens
    /\ cand_no = 1
    /\ qpc = "exact"
    /\ results_len = 0
    /\ syn_left = 0
    /\ syn_rows = 0
    /\ lookups = <<>>
    /\ concept_return = NotReturned

ConceptSpec == ConceptInit /\ [][ResolveConcept]_vars

\* one call of _get_sibling_articles for any article of any law
SiblingInit ==
    /\ EngineQuiet
    /\ PoolIdle
    /\ LawsIdle
    /\ RestIdleSibling
    /\ path_of \in [ArticleNos -> ChapterPaths]
    /\ target_int \in ArticleNos
    /\ gpc = "called"
    /\ sibling_list = <<>>

SiblingSpec == SiblingInit /\ [][SiblingArticles]_vars

\* two callers of one cached function, the store and clear_caches
LruInit ==
    /\ EngineQuiet
    /\ PoolIdle
    /\ LawsIdle
    /\ RestIdleLru
    /\ cache_fn \in CacheFns
    /\ kv_version = 1
    /\ kv_ok = TRUE
    /\ lru = <<>>
    /\ calls = [c \in Callers |-> NoCall]
    /\ clr_pc = "idle"
    /\ clr_seen = 0
    /\ clear_floor = 0

LruSpec == LruInit /\ [][CachedCalls]_vars

(***************************************************************************)
(* Fairness.  The interpreter schedules every runnable thread, so a thread *)
(* takes its next step unless it is blocked on the lock, on the event or   *)
(* in the embedder.  The embedder (encode_text) is an external call that   *)
(* may never return, so no fairness is stated for it.                      *)
(***************************************************************************)
\* the steps of a worker other than the return of encode_text
WorkerRuns(w) ==
    \/ Load(w)
    \/ SearchLen(w)
    \/ SearchMatrix(w)
    \/ SearchBoost(w)
    \/ SearchIds(w)
    \/ WorkerWrite(w)
    \/ WorkerExcept(w)

FairSpec ==
    /\ Spec
    /\ WF_vars(Preload)
    /\ \A r \in Requests : WF_vars(Request(r))
    /\ \A w \in Workers : WF_vars(WorkerRuns(w))

\* only the requesting thread is scheduled fairly: the preload thread and
\* the worker may stop at any point, for ever
RequestFairSpec ==
    /\ Spec
    /\ \A r \in Requests : WF_vars(Request(r))

(***************************************************************************)
(* Claims.                                                                 *)
(***************************************************************************)
\* the threads that are inside the load body of _load (line 114 onwards)
InLoadBody ==
    {t \in Threads : pc[t] \in {"load_query", "load_ids", "load_matrix",
                                "load_boost", "load_flag"}}

\* C1: under every interleaving of threads calling search or _load on an
\* unloaded index the load body runs exactly once: no two threads are in
\* the load body together, no thread is in it once the index is loaded, and
\* the body is entered once only (once more for each load that raised).
C1_LoadBodyOnce ==
    /\ Cardinality(InLoadBody) <= 1
    /\ loaded => InLoadBody = {}
    /\ load_count <= load_raised + 1

\* the arrays a search has read so far
SeenArrays(w) ==
    {a \in {seen[w].ids, seen[w].matrix, seen[w].boost, seen[w].ids2} : a.set}

\* C2: no search observes a partially loaded index: the arrays a search
\* reads (_article_ids, _matrix, _boost_factors) are all set and hold the
\* rows of one and the same load, also while a load or reload() is running.
C2_NoPartialIndex ==
    \A w \in Workers :
        /\ pc[w] \in {"search_encode", "search_matrix", "search_boost",
                      "search_ids"} => seen[w].ids.set
        /\ \A a, b \in SeenArrays(w) : a.rows = b.rows

\* C3: the readiness event is set immediately at startup when the vector
\* engine is unavailable, is eventually set whether the preload's load
\* succeeds or raises, and once set is never cleared.
C3_ReadyAlwaysSet ==
    /\ vdb \/ vector_ready
    /\ <>vector_ready
    /\ [][vector_ready => vector_ready']_vars

\* the event has been set by a preload whose load raised
C3_Witness ==
    /\ vector_ready
    /\ preload_outcome = "failed"

C5_ExpiredJoinIsEmpty ==
    \A r \in Requests : join_expired[r] => vec_hits[r] = <<>>

IndexFresh ==
    /\ Len(article_ids.rows) >= Len(cc_store)
    /\ Len(matrix.rows) >= Len(cc_store)
    /\ Len(boost_factors.rows) >= Len(cc_store)

\* C9: clear_caches empties the alias, law-by-id and concept caches, and
\* once it has returned the index is invalidated: if it is loaded, its
\* arrays were rebuilt from the store as it was at or after the call, so
\* the next search reads those.
C9_ClearCachesInvalidates ==
    [][/\ pc[ClearT] = "cc_clear_alias" /\ pc'[ClearT] # "cc_clear_alias"
            => alias_cache' = {}
       /\ pc[ClearT] = "cc_clear_law" /\ pc'[ClearT] # "cc_clear_law"
            => law_cache' = {}
       /\ pc[ClearT] = "cc_clear_concept" /\ pc'[ClearT] # "cc_clear_concept"
            => concept_cache' = {}
       /\ pc'[ClearT] = "cc_done" /\ loaded' => IndexFresh']_vars

\* the scopes that have exited their body and passed the finally clause
Ended == {s \in Scopes : spc[s] \in {"ended_normal", "ended_raised"}}

\* C7: get_connection releases on every exit path: when a scope that
\* obtained a connection has exited, normally or by an exception raised in
\* its body, its connection is in the free list or closed (or has since been
\* handed from the free list to a scope that is still running); no
\* connection stays checked out by a scope that has ended.
C7_ReleasedOnEveryExit ==
    \A s \in Ended : sconn[s] \in IdleConns \cup closed \cup CheckedOut

\* scopes have ended by an exception: the connection of one is back in the
\* free list, that of another was closed
C7_Witness ==
    \E s, t \in Scopes :
        /\ spc[s] = "ended_raised"
        /\ spc[t] = "ended_raised"
        /\ sconn[s] \in IdleConns
        /\ sconn[t] \in closed

\* C8 as stated: the connections the pool has open at one moment, idle in
\* the free list plus checked out by scopes, never exceed pool_size.
C8_OpenBounded ==
    Len(connections) + Cardinality(CheckedOut) <= pool_size

\* C8 as amended: the free list never holds more than pool_size
\* connections, each of them once and none of them closed; a connection
\* released to a full free list is closed.  (A scope that finds the free
\* list empty opens a new connection, however many are checked out.)
C8_FreeListBounded ==
    /\ Len(connections) <= pool_size
    /\ Cardinality(IdleConns) = Len(connections)
    /\ IdleConns \cap closed = {}
    /\ IdleConns \cap CheckedOut = {}

\* more connections are open than pool_size, and one released to a full
\* free list has been closed
C8_Witness ==
    /\ Len(connections) = pool_size
    /\ CheckedOut # {}
    /\ closed # {}

\* C10: a store error in a retrieval path of search_laws never aborts the
\* request: search_laws does not raise, and when it has returned after a
\* store error its payload is built from the results of the paths.
C10_NoPathAborts ==
    /\ lpc # "raised"
    /\ lpc = "returned" /\ lfail # {} => lpayload.rows = FinalRows

\* a path of search_laws produced at least one law for the request
Yielded ==
    \/ lalias # 0
    \/ lconcept # {}
    \/ lresults # {}
    \/ lfallback # {}
    \/ lvector # <<>>

\* C11: search_laws returns the not-found message if and only if no path
\* yielded anything: whenever the alias, concept, FTS, LIKE-fallback or
\* vector path produced a law, the response has at least one result entry.
C11_NotFoundIffNothing ==
    lpc = "returned" => (lpayload = NoPayload <=> ~Yielded)

\* the law entries of a payload: alias-exact, concept and related laws
Entries(pl) ==
    (IF pl.alias # 0 THEN 1 ELSE 0) + Cardinality(pl.concept) + Len(pl.rows)

\* C12: search_laws emits at most limit law entries in total across its
\* alias, concept and related-laws segments.
C12_AtMostLimit ==
    lpc = "returned" => Entries(lpayload) <= llimit

\* the law ids of a list of rows
Range(q) == {q[i] : i \in DOMAIN q}

\* C13: in the payload of search_laws no law shown in the alias-exact or
\* the concept segment appears among the related laws, and no law appears
\* among the related laws more than once.
C13_NoReemission ==
    lpc = "returned" =>
        /\ lpayload.alias \notin Range(lpayload.rows)
        /\ lpayload.concept \cap Range(lpayload.rows) = {}
        /\ \A i, j \in DOMAIN lpayload.rows :
              lpayload.rows[i] = lpayload.rows[j] => i = j

\* a payload with a concept law that the fallback also returned, and with a
\* law of which the vector path returned two articles, emitted once
C13_Witness ==
    /\ lpc = "returned"
    /\ lpayload.concept \cap lfallback # {}
    /\ Len(lvector) = 2
    /\ lvector[1] = lvector[2]
    /\ lvector[1] \in Range(lpayload.rows)

\* C14: every rung of the search_laws ladder (phrase, AND, OR and the
\* title/content LIKE fallback) applies the category and status filters: no
\* rung returns a law whose category or status differs from the requested.
C14_RungsHonorFilters ==
    \A l \in lresults \cup lfallback : PassesFilters(l)

\* the vector stage of the request has been decided
VectorDecided == lpc \in {"vector_fetch", "add_rows", "returned"}

InForceExact == {r \in alias_rows : r.match = "exact" /\ r.status = "in_force"}
InForceSubstring ==
    {r \in alias_rows : r.match = "substring" /\ r.status = "in_force"}

\* r is best in S by confidence, ties broken by the later publish_date
BestIn(r, S) ==
    /\ r \in S
    /\ \A o \in S : o.confidence <= r.confidence
    /\ \A o \in S : o.confidence = r.confidence =>
                        o.publish_date <= r.publish_date

\* C16: resolve_law_alias_cached returns only in-force laws; if an alias
\* row equals the query the result is the best exact row (highest
\* confidence, ties broken by later publish_date) with its confidence
\* unscaled; a substring match is returned only when there is no exact
\* match, with nine tenths of its confidence; otherwise the result is None.
C16_AliasOrder ==
    apc = "returned" =>
        /\ alias_result # NoRow =>
              \E r \in alias_rows :
                  r.law = alias_result.law /\ r.status = "in_force"
        /\ InForceExact # {} =>
              \E r \in InForceExact :
                  /\ BestIn(r, InForceExact)
                  /\ alias_result = ResultRow(r.law, r.confidence)
        /\ InForceExact = {} /\ InForceSubstring # {} =>
              \E r \in InForceSubstring :
                  /\ BestIn(r, InForceSubstring)
                  /\ alias_result = ResultRow(r.law, (r.confidence * 9) \div 10)
        /\ InForceExact = {} /\ InForceSubstring = {} => alias_result = NoRow

\* two exact in-force rows of equal confidence: the later law is returned
C16_Witness ==
    /\ apc = "returned"
    /\ \E r1, r2 \in InForceExact :
          /\ r1.confidence = r2.confidence
          /\ r1.publish_date < r2.publish_date
          /\ alias_result = ResultRow(r2.law, r2.confidence)

\* C17: for every n in 1..9999, cn2an_convert applied to the Chinese
\* numeral of n returns n, and cn2an_convert applied to the digit string of
\* n returns n.
C17_RoundTrip == cpc = "returned" => cn_value = cn_n

\* the numbers of the opener lines and of the hierarchy lines of the text
Openers == {i \in 1..Len(lines) : lines[i] = "opener"}
HierarchyLines ==
    {i \in 1..Len(lines) : lines[i] \in {"bian", "fenbian", "zhang", "jie"}}
\* the opener line of the k-th article emitted
OpenerOf(k) == articles[k].content[1]

\* C18: split_law emits its articles in source order, exactly one per
\* opener line, and the content of each begins with its own opener line;
\* text before the first opener and hierarchy lines appear in no content.
C18_OnePerOpenerInOrder ==
    split_returned =>
        /\ Len(articles) = Cardinality(Openers)
        /\ \A k \in 1..Len(articles) :
              /\ OpenerOf(k) \in Openers
              /\ Cardinality({o \in Openers : o < OpenerOf(k)}) = k - 1
              /\ \A j \in 1..Len(articles[k].content) :
                    /\ articles[k].content[j] \notin HierarchyLines
                    /\ articles[k].content[j] >= OpenerOf(k)

\* two articles from a text that begins with a plain line and has a
\* hierarchy line after the first opener
C18_Witness ==
    /\ split_returned
    /\ Len(articles) = 2
    /\ lines[1] = "text"
    /\ \E h \in HierarchyLines : OpenerOf(1) < h /\ h < OpenerOf(2)

\* the levels above a level
Above(k) ==
    CASE k = "jie" -> {"bian", "fenbian", "zhang"}
      [] k = "zhang" -> {"bian", "fenbian"}
      [] k = "fenbian" -> {"bian"}
      [] OTHER -> {}

\* h is current at line o: it is the last line of its level before o and no
\* line of a level above it lies between h and o
CurrentAt(h, o) ==
    /\ h \in HierarchyLines
    /\ h < o
    /\ \A j \in (h + 1)..(o - 1) :
          lines[j] # lines[h] /\ lines[j] \notin Above(lines[h])

LevelRank(k) ==
    CASE k = "bian" -> 1 [] k = "fenbian" -> 2 [] k = "zhang" -> 3
      [] OTHER -> 4

\* C19: the chapter_path of every emitted article consists, in Book, Part,
\* Chapter, Section order, of exactly the hierarchy lines current when the
\* article opened; it holds no hierarchy line that follows the opener.
C19_PathIsCurrentHierarchy ==
    split_returned =>
        \A k \in 1..Len(articles) :
            LET path == articles[k].chapter_path
            IN /\ {path[j] : j \in 1..Len(path)} =
                      {h \in HierarchyLines : CurrentAt(h, OpenerOf(k))}
               /\ \A i, j \in 1..Len(path) :
                      i < j => LevelRank(lines[path[i]])
                                   < LevelRank(lines[path[j]])

\* an article opened after a Section line that a later Book line has reset
C19_Witness ==
    /\ split_returned
    /\ \E k \in 1..Len(articles) :
          /\ articles[k].chapter_path # <<>>
          /\ \E h \in HierarchyLines :
                /\ lines[h] = "jie"
                /\ h < OpenerOf(k)
                /\ ~CurrentAt(h, OpenerOf(k))

\* C20: the boost of a row is (1.15 if the title contains a core-law name,
\* else 1.0) times (0.1 if length < 20; 0.5 if 20 <= length < 50; 1.0
\* otherwise); here in thousandths.
C20_BoostTable ==
    bpc = "appended" =>
        factor = (((IF title_core THEN 1150 ELSE 1000)
                     * (IF length < 20 THEN 1
                        ELSE IF length < 50 THEN 5 ELSE 10)) \div 10)

\* the sum of the rrf of the positions from i on at which lst holds k
RECURSIVE OccurrenceScore(_, _, _, _)
OccurrenceScore(lst, weight, k, i) ==
    IF i > Len(lst) THEN 0
    ELSE (IF lst[i] = k THEN Rrf(weight, i - 1) ELSE 0)
             + OccurrenceScore(lst, weight, k, i + 1)

\* the rrf of the first position at which lst holds k, 0 if there is none
FirstRankScore(lst, weight, k) ==
    IF \E i \in 1..Len(lst) : lst[i] = k
    THEN Rrf(weight, (CHOOSE i \in 1..Len(lst) :
                         lst[i] = k /\ \A j \in 1..(i - 1) : lst[j] # k) - 1)
    ELSE 0

InSomeList(k) ==
    \E lst \in {concept_results, fts_results, vec_results} :
        \E i \in 1..Len(lst) : lst[i] = k

\* final_keys holds the Min(limit, number of keys) keys of highest score,
\* each once, in descending score
DescendingTop ==
    /\ Len(final_keys) = Min(merge_limit, Cardinality({k \in MergeKeys :
                                                          InSomeList(k)}))
    /\ \A i, j \in 1..Len(final_keys) :
          i < j => /\ final_keys[i] # final_keys[j]
                   /\ scores[final_keys[i]] >= scores[final_keys[j]]
    /\ \A i \in 1..Len(final_keys) : \A k \in MergeKeys :
          InSomeList(k) /\ k \notin Range(final_keys) =>
              scores[k] <= scores[final_keys[i]]

\* the lists A = [a1, a2] of the FTS path and B = [b1] of the vector path
ExampleLists ==
    /\ concept_results = <<>>
    /\ fts_results = <<"a1", "a2">>
    /\ vec_results = <<"b1">>

RECURSIVE Dedup(_)
Dedup(lst) ==
    IF lst = <<>> THEN <<>>
    ELSE LET front == Dedup(SubSeq(lst, 1, Len(lst) - 1))
             last == lst[Len(lst)]
         IN IF last \in Range(front) THEN front ELSE Append(front, last)

\* C22: a key that occurs more than once in the list of one path adds to
\* its score once for that path, at its first rank, and the keys after it
\* are ranked as if the repetition were not there.
C22_DedupWithinPath ==
    mpc = "sorted" =>
        \A k \in MergeKeys :
            scores[k] = FirstRankScore(Dedup(concept_results), ConceptWeight, k)
                        + FirstRankScore(Dedup(fts_results), FtsWeight, k)
                        + FirstRankScore(Dedup(vec_results), VecWeight, k)

\* C24 as stated: in search_laws the OR rung is attempted before the LIKE
\* fallback, which is executed only if the OR rung also returned nothing:
\* for a query of several tokens the fallback is entered from the OR rung.
C24_OrBeforeLike ==
    [][lmulti /\ lpc' = "like_title" /\ lpc # "like_title" => lpc = "fts_or"]_vars

\* C24, amended: the LIKE fallback is entered from the phrase or AND rung
\* when these are empty, and the OR rung is entered only from the LIKE
\* fallback, for a query of several tokens, when the FTS rungs and the
\* fallback were all empty.
C24_LikeBeforeOr ==
    [][/\ lpc' = "like_title" /\ lpc # "like_title" =>
              lpc \in {"fts_phrase", "fts_and"} /\ lresults' = {}
       /\ lpc' = "fts_or" /\ lpc # "fts_or" =>
              /\ lpc \in {"like_title", "like_content"}
              /\ lmulti
              /\ lresults = {}
              /\ lfallback' = {}]_vars

\* the OR rung is about to run after an empty LIKE fallback
C24_Witness ==
    /\ lpc = "fts_or"
    /\ lmulti
    /\ lresults = {}
    /\ lfallback = {}

\* the place of a rung in the order AND with synonyms, AND without
\* synonyms, OR of the expanded tokens, LIKE fallback; 0 for any other query
RungPlace(rung) ==
    CASE rung = "and_synonyms" -> 1 [] rung = "and" -> 2 [] rung = "or" -> 3
      [] rung = "like" -> 4 [] OTHER -> 0

\* C23: the article ladder runs its rungs in the order AND with synonyms,
\* AND without synonyms, OR of the expanded tokens, LIKE fallback, and
\* returns the rows of the first rung that is not empty: nothing runs after
\* such a rung, a rung that raises counts as empty, and the LIKE fallback
\* runs only when every FTS rung was empty.
C23_FirstNonEmptyRung ==
    /\ \A i \in 1..Len(ran) : RungPlace(ran[i].rung) # 0
    /\ \A i, j \in 1..Len(ran) :
          i < j => /\ RungPlace(ran[i].rung) < RungPlace(ran[j].rung)
                   /\ ran[i].rows = {}
    /\ kpc = "done" /\ ran # <<>> => ladder_results = ran[Len(ran)].rows

\* the phrases of len tokens of a query of n tokens, in order of start
RECURSIVE PhrasesFrom(_, _, _)
PhrasesFrom(n, len, start) ==
    IF start + len - 1 > n THEN <<>>
    ELSE <<Phrase(start, len)>> \o PhrasesFrom(n, len, start + 1)

\* the phrases of len down to 2 tokens, longest first
RECURSIVE MultiTokenPhrases(_, _)
MultiTokenPhrases(n, len) ==
    IF len < 2 THEN <<>>
    ELSE PhrasesFrom(n, len, 1) \o MultiTokenPhrases(n, len - 1)

\* the candidates in the order of the claim: the full query, the shorter
\* phrases of several tokens from longest to shortest, the single tokens
ClaimedCandidates(n) ==
    IF n = 1 THEN <<Phrase(1, 1)>>
    ELSE <<Phrase(1, n)>> \o MultiTokenPhrases(n, n - 1) \o PhrasesFrom(n, 1, 1)

\* the lookup that stands at place j: exact then synonym for each candidate
\* in turn, then the fuzzy match
PlaceOk(j) ==
    LET nc == Len(Candidates(num_tokens))
    IN IF j > 2 * nc THEN lookups[j].kind = "fuzzy" /\ j = 2 * nc + 1
       ELSE /\ lookups[j].cand = (j + 1) \div 2
            /\ lookups[j].kind = IF j % 2 = 1 THEN "exact" ELSE "synonym"

\* C25: resolve_concept_cached takes the candidates in the order full
\* query, multi-token sub-phrases from longest to shortest, single tokens;
\* for each it does the exact lookup, then the synonym expansion, and it
\* returns the rows of the first lookup that is not empty; the fuzzy match
\* is done only when every exact and synonym lookup was empty and returns
\* at most 10 rows.  A lookup that raised counts as empty.
C25_FirstNonEmptyLookup ==
    /\ Candidates(num_tokens) = ClaimedCandidates(num_tokens)
    /\ \A j \in 1..Len(lookups) : PlaceOk(j)
    /\ \A j \in 1..(Len(lookups) - 1) :
          lookups[j].raised \/ lookups[j].rows = 0
    /\ qpc = "returned" =>
          /\ concept_return = lookups[Len(lookups)].rows
          /\ lookups[Len(lookups)].kind = "fuzzy" => concept_return <= FuzzyLimit

\* C26: when the numeral of an opener cannot be parsed, split_law still
\* emits the article, with article_number_int 0 and article_number_str the
\* raw numeral token of the opener, and the other articles are split as
\* usual (one per opener, in order).
C26_UnparsedKeepsRawToken ==
    split_returned =>
        /\ Len(articles) = Cardinality(Openers)
        /\ \A k \in 1..Len(articles) :
              /\ OpenerOf(k) \in Openers
              /\ OpenerOf(k) \in unparsed =>
                    /\ articles[k].article_number_int = 0
                    /\ articles[k].article_number_str = RawToken(OpenerOf(k))

\* the articles of the law that share the non-empty chapter_path of the
\* target and have another number
SiblingCandidates ==
    IF path_of[target_int] = "" THEN {}
    ELSE {n \in ArticleNos \ {target_int} : path_of[n] = path_of[target_int]}

\* C27: _get_sibling_articles lists at most 10 articles, all with the
\* non-empty chapter_path of the target and none with its number; every
\* listed article is no farther from the target than any candidate not
\* listed; the list is in ascending article_number_int; it is empty when
\* the target has an empty chapter_path or nothing shares it; and when the
\* call returns from its queries it lists 10 candidates or all of them.
C27_NearestSiblings ==
    gpc \in {"returned", "failed"} =>
        /\ Len(sibling_list) <= SiblingLimit
        /\ Range(sibling_list) \subseteq SiblingCandidates
        /\ \A n \in Range(sibling_list) :
              \A m \in SiblingCandidates \ Range(sibling_list) :
                  Distance(n, target_int) <= Distance(m, target_int)
        /\ \A i, j \in 1..Len(sibling_list) :
              i < j => sibling_list[i] < sibling_list[j]
        /\ SiblingCandidates = {} => sibling_list = <<>>
        /\ gpc = "returned" =>
              Len(sibling_list) =
                  Min(SiblingLimit, Cardinality(SiblingCandidates))

\* more than 10 candidates on both sides of the target: 10 are listed
C27_Witness ==
    /\ gpc = "returned"
    /\ Cardinality(SiblingCandidates) > SiblingLimit
    /\ Len(sibling_list) = SiblingLimit
    /\ \E n \in SiblingCandidates : n < target_int
    /\ \E n \in SiblingCandidates : n > target_int

\* C28: a call of resolve_law_alias_cached or resolve_concept_cached made
\* while the store answers does not return, from the cache, the outcome of
\* an earlier store error.
C28_ErrorIsAMiss ==
    [][\A c \in Callers :
          ( /\ cache_fn # "get_law_by_id_cached"
            /\ kv_ok
            /\ calls'[c] # calls[c]
            /\ calls'[c].pc = "returned"
            /\ calls'[c].hit )
          => calls'[c].val # ErrorOutcome]_vars

\* C30: a call answered from the cache after clear_caches has returned
\* returns a value read from the store as it was when that clear_caches
\* was called or later (the outcome of a store error apart).
C30_ClearIsComplete ==
    [][\A c \in Callers :
          ( /\ calls'[c] # calls[c]
            /\ calls'[c].pc = "returned"
            /\ calls'[c].hit )
          => \/ calls'[c].val = ErrorOutcome
             \/ calls'[c].val >= clear_floor]_vars

\* the connections opened so far
Opened == 1..(next_conn - 1)

\* C29: under any interleaving of get_connection scopes no connection is
\* held by two scopes, none is twice in the free list, and every opened
\* connection is in exactly one of: the free list, held by one scope,
\* closed.
C29_OneStatePerConnection ==
    /\ \A s, t \in Holding : s # t => sconn[s] # sconn[t]
    /\ \A i, j \in DOMAIN connections :
          i # j => connections[i] # connections[j]
    /\ IdleConns \cap CheckedOut = {}
    /\ IdleConns \cap closed = {}
    /\ CheckedOut \cap closed = {}
    /\ IdleConns \cup CheckedOut \cup closed = Opened

\* two scopes hold connections while a third has released its connection
\* to the free list
C29_Witness ==
    /\ \E s, t \in Holding : s # t
    /\ \E s \in Scopes : spc[s] \in {"ended_normal", "ended_raised"}
    /\ connections # <<>>

=============================================================================
